---- MODULE Spec2Model ----
(***************************************************************************)
(* The job pipeline of the video fact checker: the in-memory job table of  *)
(* videoController.ts, its five request handlers, and the two background   *)
(* tasks (processVideoAsync: download + transcription, analyzeVideoAsync:  *)
(* claim extraction + verification) that mutate a job.                     *)
(*                                                                         *)
(* Node runs one piece of JavaScript at a time.  A handler or a task runs  *)
(* without interruption from one await to the next.  The model keeps that  *)
(* discipline: when a handler or an awaited call returns, the writes the   *)
(* code performs up to its next await are placed in todo, in program       *)
(* order, and are applied one by one; no request and no other task runs    *)
(* while todo is non-empty.                                                *)
(***************************************************************************)
EXTENDS Integers, Sequences, FiniteSets, TLC

\* ------------------------------------------------------------------ bounds
\* ids generateId can return
MaxJobs == 2
\* claims an extraction can return
MaxClaims == 1
\* polls of one uploaded asset that may still find it PROCESSING
MaxPolls == 2

\* ------------------------------------------------------- program constants
FILE_SIZE_THRESHOLD == 4194304
CHUNK_DURATION_SECONDS == 300
CHUNKING_THRESHOLD_SECONDS == 600
MaxUploadRetries == 3
MaxGenerateAttempts == 3
ChunkPollCeiling == 30
FilePollCeiling == 60

\* claims of an extraction whose scoring is examined
MaxScored == 4
\* windows of the longest audio that is split
MaxWindows == 5
\* claims of an extraction whose verdicts arrive in any order
MaxMatched == 2

\* ------------------------------------------------------------------ inputs
Ids == 1..MaxJobs
\* an id the server never generated
NoSuchId == MaxJobs + 1
RequestIds == Ids \cup {NoSuchId}

\* probed durations (seconds) and file sizes (bytes) of a downloaded audio
\* what parseFloat makes of probe output that is not a number, kept apart
\* from every duration (a duration is not negative)
NaN == -1
\* a > b of two numbers either of which may be NaN
GreaterThan(a, b) == a # NaN /\ b # NaN /\ a > b

Durations == {0, CHUNKING_THRESHOLD_SECONDS, 700, NaN}
Sizes == {FILE_SIZE_THRESHOLD, FILE_SIZE_THRESHOLD + 1}

\* ---------------------------------------------------------------- strings
\* A host name is a sequence of one-character strings, so that the
\* substring tests of the code are computed and not assumed.

h_youtube == <<"y","o","u","t","u","b","e",".","c","o","m">>
h_youtu_be == <<"y","o","u","t","u",".","b","e">>
h_facebook == <<"f","a","c","e","b","o","o","k",".","c","o","m">>
h_fb_watch == <<"f","b",".","w","a","t","c","h">>
h_instagram == <<"i","n","s","t","a","g","r","a","m",".","c","o","m">>
h_twitter == <<"t","w","i","t","t","e","r",".","c","o","m">>
h_x == <<"x",".","c","o","m">>
h_tiktok == <<"t","i","k","t","o","k",".","c","o","m">>
h_www == <<"w","w","w",".">>

supportedPlatforms ==
    <<h_youtube, h_youtu_be, h_facebook, h_fb_watch, h_instagram, h_twitter, h_x, h_tiktok>>

supportedLanguages ==
    <<"en", "ar", "fr", "es", "de", "it", "pt", "ru", "zh", "ja", "ko", "hi", "tr">>

UpperAlpha ==
    <<"A","B","C","D","E","F","G","H","I","J","K","L","M",
      "N","O","P","Q","R","S","T","U","V","W","X","Y","Z">>
LowerAlpha ==
    <<"a","b","c","d","e","f","g","h","i","j","k","l","m",
      "n","o","p","q","r","s","t","u","v","w","x","y","z">>

\* String.prototype.toLowerCase
toLowerCase(s) ==
    [i \in 1..Len(s) |->
        IF \E k \in 1..26 : UpperAlpha[k] = s[i]
        THEN LowerAlpha[CHOOSE k \in 1..26 : UpperAlpha[k] = s[i]]
        ELSE s[i]]

\* position of the first occurrence of pat in s, 0 when there is none
IndexOf(s, pat) ==
    LET hits == {i \in 1..(Len(s) - Len(pat) + 1) : SubSeq(s, i, i + Len(pat) - 1) = pat}
    IN  IF hits = {} THEN 0 ELSE CHOOSE i \in hits : \A k \in hits : i <= k

\* String.prototype.includes
includes(s, pat) == IndexOf(s, pat) > 0

\* String.prototype.replace(pat, "") with a string pattern: the first
\* occurrence only, wherever it is
replaceFirst(s, pat) ==
    LET i == IndexOf(s, pat)
    IN  IF i = 0 THEN s ELSE SubSeq(s, 1, i - 1) \o SubSeq(s, i + Len(pat), Len(s))

\* A request URL: absent ("" or undefined), or a string that new URL()
\* either rejects (parses = FALSE) or parses to a host name.
NoUrl == [given |-> FALSE, parses |-> FALSE, host |-> <<>>]
BadUrl == [given |-> TRUE, parses |-> FALSE, host |-> <<>>]
Url(h) == [given |-> TRUE, parses |-> TRUE, host |-> h]

hostnameKey(url) == toLowerCase(replaceFirst(url.host, h_www))

isValidPlatformUrl(url) ==
    /\ url.parses
    /\ \E p \in 1..Len(supportedPlatforms) :
          includes(hostnameKey(url), replaceFirst(supportedPlatforms[p], h_www))

extractPlatform(url) ==
    IF ~url.parses THEN "Unknown"
    ELSE LET h == hostnameKey(url) IN
         IF includes(h, <<"y","o","u","t","u","b","e">>) \/ includes(h, <<"y","o","u","t","u",".","b","e">>)
            THEN "YouTube"
         ELSE IF includes(h, <<"f","a","c","e","b","o","o","k">>) \/ includes(h, h_fb_watch)
            THEN "Facebook"
         ELSE IF includes(h, <<"i","n","s","t","a","g","r","a","m">>)
            THEN "Instagram"
         ELSE IF includes(h, <<"t","w","i","t","t","e","r">>) \/ includes(h, h_x)
            THEN "Twitter/X"
         ELSE IF includes(h, <<"t","i","k","t","o","k">>)
            THEN "TikTok"
         ELSE "Unknown"

isSupportedLanguage(language) ==
    \E k \in 1..Len(supportedLanguages) : supportedLanguages[k] = language

\* ------------------------------------------------------------------- state
VARIABLES
    videoJobs,      \* keys of the job table (the Map videoJobs)
    heap,           \* the VideoData object created for each generated id
    fresh,          \* ids generateId has not returned yet
    dl,             \* locals of processVideoAsync, per job
    an,             \* locals of the running analyzeVideoAsync calls, per job
    cur,            \* the task whose synchronous writes are in todo
    todo,           \* writes the running code performs before its next await
    geminiApiKey,   \* config.geminiApiKey is set
    resp            \* the HTTP response this step sent, where responses are recorded

vars == <<videoJobs, heap, fresh, dl, an, cur, todo, geminiApiKey, resp>>

\* everything but the record of the last response
server == <<videoJobs, heap, fresh, dl, an, cur, todo, geminiApiKey>>

Generated == DOMAIN heap

\* an optional field: <<>> is undefined, <<v>> is the value v
None == <<>>
Some(v) == <<v>>

ClaimStatuses == {"true", "false", "partially_true", "unverifiable"}

NoTask == [job |-> NoSuchId, kind |-> "none", idx |-> 0]
DlTask(j) == [job |-> j, kind |-> "dl", idx |-> 0]
AnTask(j, k) == [job |-> j, kind |-> "an", idx |-> k]

\* a response: the request it answers (op, id or url and language), its
\* status code and its error text ("" with a 200)
NoResp == [op |-> "none", id |-> NoSuchId, url |-> NoUrl, language |-> "",
           code |-> 0, error |-> ""]
Reply(op, id, url, language, code, error) ==
    [op |-> op, id |-> id, url |-> url, language |-> language,
     code |-> code, error |-> error]

\* the event loop is free: no handler or task is in the middle of its
\* synchronous code
Idle == todo = <<>>

\* ------------------------------------------------------ writes of a segment
\* updateStatus(status, progress, message) of processVideoAsync
U(st, pr, msg) == [k |-> "upd", st |-> st, pr |-> pr, msg |-> msg]
\* lines 156-161 of processVideoAsync: const job = videoJobs.get(videoId)
Cap == [k |-> "cap", st |-> "", pr |-> 0, msg |-> ""]
\* lines 170-175 of processVideoAsync
Fin == [k |-> "fin", st |-> "", pr |-> 0, msg |-> ""]
\* the catch block of processVideoAsync
Err(msg) == [k |-> "err", st |-> "", pr |-> 0, msg |-> msg]
\* the progress callback analyzeVideoAsync hands to factCheckTranscription
AProg(pr, msg) == [k |-> "aprog", st |-> "", pr |-> pr, msg |-> msg]
\* lines 272-277 of analyzeVideoAsync
ADone == [k |-> "adone", st |-> "", pr |-> 0, msg |-> ""]
\* the catch block of analyzeVideoAsync
AErr(msg) == [k |-> "aerr", st |-> "", pr |-> 0, msg |-> msg]

\* a segment: the writes up to the next await and the locals at that await
Seg(ops, d) == [ops |-> ops, d |-> d]
Then(ops, seg) == [ops |-> ops \o seg.ops, d |-> seg.d]
\* a segment that ends the task with an exception
Throw(d, msg) == Seg(<<Err(msg)>>, [d EXCEPT !.pc = "sync"])

\* ----------------------------------------------------------------- objects
NewVideoData(id, url, language) ==
    [id |-> id,
     url |-> url,
     platform |-> extractPlatform(url),
     language |-> language,
     status |-> "pending",
     progress |-> 0,
     statusMessage |-> "Initializing...",
     audioPath |-> None,
     transcription |-> None,
     claims |-> None,
     overallScore |-> None,
     error |-> None]

\* an empty job directory: no audio file, no chunk file (a chunk file goes
\* under the start offset of its chunk)
NoFiles == [audio |-> FALSE, chunks |-> {}]

DlLocals ==
    [pc |-> "info",         \* the await the task is suspended at
     job |-> "unset",       \* the const job of line 156: unset, ref or undefined
     path |-> "none",       \* inline, file or chunk
     attempt |-> 0,
     resume |-> "none",     \* what a backoff wait is followed by
     delay |-> 0,           \* milliseconds of the backoff wait being awaited
     waitCount |-> 0,
     state |-> "NONE",      \* file.state of the uploaded asset
     chunks |-> <<>>,
     i |-> 0,
     texts |-> <<>>,        \* start offsets of the chunks that produced text
     lastError |-> None,
     audioDuration |-> 0,   \* the duration transcribeAudio probed
     result |-> None,
     files |-> NoFiles]     \* the files in the job's directory

\* the locals of a call that has returned
DlReturned == [DlLocals EXCEPT !.pc = "done"]

\* fs.unlinkSync(chunk.path) after the try of chunk i, its failure swallowed
unlinkChunk(d) == [d EXCEPT !.files.chunks = @ \ {d.chunks[d.i].startTime}]

generateId == fresh

\* ------------------------------------------------------ transcription driver
Min(a, b) == IF a < b THEN a ELSE b

\* the while loop of splitAudioIntoChunks; created holds the indices of the
\* windows whose ffmpeg extraction left a file
RECURSIVE SplitLoop(_, _, _, _, _, _)
SplitLoop(startTime, chunkIndex, totalDuration, chunkDuration, created, chunks) ==
    IF ~(startTime < totalDuration) THEN chunks
    ELSE LET duration == Min(chunkDuration, totalDuration - startTime)
         IN  SplitLoop(startTime + chunkDuration, chunkIndex + 1, totalDuration,
                       chunkDuration, created,
                       IF chunkIndex \in created
                       THEN Append(chunks, [startTime |-> startTime, duration |-> duration])
                       ELSE chunks)

\* indices of the windows the loop visits
Windows(totalDuration, chunkDuration) ==
    {k \in 0..totalDuration : k * chunkDuration < totalDuration}

\* a variant of the splitter that gives up at the first window whose
\* extraction leaves no file
splitAudioIntoChunksStopsAtFailure(totalDuration, chunkDuration, created) ==
    LET failed == Windows(totalDuration, chunkDuration) \ created
        before == {k \in created : \A f \in failed : k < f}
    IN  SplitLoop(0, 0, totalDuration, chunkDuration, before, <<>>)

\* a variant of the splitter that gives every chunk the full window length
splitAudioIntoChunksUntruncated(totalDuration, chunkDuration, created) ==
    LET chunks == SplitLoop(0, 0, totalDuration, chunkDuration, created, <<>>)
    IN  [c \in 1..Len(chunks) |-> [chunks[c] EXCEPT !.duration = chunkDuration]]

splitAudioIntoChunks(totalDuration, chunkDuration, created) ==
    SplitLoop(0, 0, totalDuration, chunkDuration, created, <<>>)

\* progressBase of transcribeWithChunking, i counted from 0
progressBase(i, n) == 50 + ((i * 40) \div n)

\* the transcript of a job: the whole file's text, or the merged texts of
\* the chunks that start at the offsets in parts
WholeText == [kind |-> "whole", parts |-> <<>>]

\* n.toString(): the decimal digits of a natural number
RECURSIVE toString(_)
toString(n) == IF n < 10 THEN <<n>> ELSE Append(toString(n \div 10), n % 10)

\* s.padStart(2, '0')
padStart2(s) == IF Len(s) < 2 THEN <<0>> \o s ELSE s

\* formatTimestamp(seconds): the minutes and seconds of an [MM:SS] header
formatTimestamp(seconds) ==
    [mins |-> padStart2(toString(seconds \div 60)),
     secs |-> padStart2(toString(seconds % 60))]

\* a variant of the merge that numbers the sections it has: the p-th
\* section gets the header of the p-th window
MergedTextByPosition(parts) ==
    [kind |-> "chunks",
     parts |-> [p \in 1..Len(parts) |-> formatTimestamp((p - 1) * CHUNK_DURATION_SECONDS)]]

\* transcriptions.join('\n\n') of the sections pushed for the chunks that
\* start at the offsets in parts, each section under its own header
MergedText(parts) ==
    [kind |-> "chunks", parts |-> [p \in 1..Len(parts) |-> formatTimestamp(parts[p])]]

\* the error the upload call, or the generation call, of attempt number
\* attempt throws: every call may throw an error of its own
UploadError(attempt) ==
    <<"upload error 1", "upload error 2", "upload error 3">>[attempt]
GenerateError(attempt) ==
    <<"generateContent error 1", "generateContent error 2",
      "generateContent error 3">>[attempt]

\* one pass of the for loop of uploadWithRetry up to its await; only the
\* whole-file path hands it a progress callback
StartUpload(d, attempt) ==
    Seg(IF d.path = "file"
        THEN <<U("transcribing", 50 + attempt, "Uploading audio (attempt)")>>
        ELSE <<>>,
        [d EXCEPT !.pc = "upload", !.attempt = attempt,
                  !.lastError = IF attempt = 1 THEN None ELSE d.lastError])

\* one pass of the generation loop up to its await
StartGenerate(d, attempt) ==
    Seg(IF d.path = "inline"
        THEN <<U("transcribing", 55 + attempt * 5, "Transcribing (attempt)")>>
        ELSE IF d.path = "file"
        THEN <<U("transcribing", 65 + attempt * 2, "Transcribing (attempt)")>>
        ELSE <<>>,
        [d EXCEPT !.pc = "generate", !.attempt = attempt,
                  !.lastError = IF attempt = 1 THEN None ELSE d.lastError,
                  !.waitCount = 0])

\* a variant of the end of the generation loop that forgets the error an
\* attempt raised
GenerateExhaustedGeneric(d) ==
    Throw(d, IF d.path = "file" THEN "Transcription failed with File API"
             ELSE "Transcription failed with inline data")

\* the generation loop of a whole-file path ran out of attempts
GenerateExhausted(d) ==
    Throw(d, IF d.lastError # None THEN d.lastError[1]
             ELSE IF d.path = "file" THEN "Transcription failed with File API"
             ELSE "Transcription failed with inline data")

\* a variant of the chunk loop that fails the job when any chunk gave no text
ChunkLoopAllOrNothing(d, i) ==
    IF i <= Len(d.chunks)
    THEN Then(<<U("transcribing", progressBase(i - 1, Len(d.chunks)), "Transcribing chunk")>>,
              StartUpload([d EXCEPT !.i = i, !.waitCount = 0, !.state = "NONE"], 1))
    ELSE IF Len(d.texts) < Len(d.chunks)
    THEN Throw(d, "Failed to transcribe any chunks")
    ELSE Seg(<<U("transcribing", 95, "Merging transcriptions..."),
               U("transcribing", 100, "Transcription complete!"),
               Fin>>,
             [d EXCEPT !.pc = "sync", !.result = Some(MergedText(d.texts))])

\* the head of the for loop of transcribeWithChunking for chunk i (from 1),
\* and what follows the loop
ChunkLoop(d, i) ==
    IF i <= Len(d.chunks)
    THEN Then(<<U("transcribing", progressBase(i - 1, Len(d.chunks)), "Transcribing chunk")>>,
              StartUpload([d EXCEPT !.i = i, !.waitCount = 0, !.state = "NONE"], 1))
    ELSE IF Len(d.texts) = 0
    THEN Throw(d, "Failed to transcribe any chunks")
    ELSE Seg(<<U("transcribing", 95, "Merging transcriptions..."),
               U("transcribing", 100, "Transcription complete!"),
               Fin>>,
             [d EXCEPT !.pc = "sync", !.result = Some(MergedText(d.texts))])

transcribeWithChunking(d, totalDuration, created) ==
    LET chunks == splitAudioIntoChunks(totalDuration, CHUNK_DURATION_SECONDS, created)
    IN  Then(<<U("transcribing", 50, "Splitting audio into chunks...")>>,
             IF totalDuration <= 0
             THEN Throw(d, "Could not determine audio duration")
             ELSE IF Len(chunks) = 0
             THEN Throw(d, "Failed to split audio into chunks")
             ELSE ChunkLoop([d EXCEPT !.path = "chunk", !.chunks = chunks,
                                      !.files.chunks = @ \cup {chunks[c].startTime : c \in 1..Len(chunks)}],
                            1))

transcribeWithFileAPI(d) ==
    Then(<<U("transcribing", 50, "Uploading audio to Gemini...")>>,
         StartUpload([d EXCEPT !.path = "file"], 1))

transcribeWithInlineData(d) ==
    Then(<<U("transcribing", 50, "Reading audio file..."),
           U("transcribing", 55, "Transcribing in language...")>>,
         StartGenerate([d EXCEPT !.path = "inline"], 1))

transcribeAudio(d, apiKey, audioDuration, size, created) ==
    IF ~apiKey
    THEN Throw(d, "Gemini API key not configured. Please set GEMINI_API_KEY in .env")
    ELSE LET probed == [d EXCEPT !.audioDuration = audioDuration]
         IN  Then(<<U("transcribing", 45, "Initializing transcription...")>>,
                  IF GreaterThan(audioDuration, CHUNKING_THRESHOLD_SECONDS)
                  THEN Then(<<U("transcribing", 48, "Long audio detected, splitting into chunks...")>>,
                            transcribeWithChunking(probed, audioDuration, created))
                  ELSE Then(<<U("transcribing", 48, "Preparing audio for transcription...")>>,
                            IF size > FILE_SIZE_THRESHOLD
                            THEN transcribeWithFileAPI(probed)
                            ELSE transcribeWithInlineData(probed)))

\* a variant of the poll loops that asks once more at the ceiling
AfterPollOneMore(d) ==
    IF d.state = "PROCESSING" /\ d.waitCount <= (IF d.path = "file" THEN FilePollCeiling ELSE ChunkPollCeiling)
    THEN Seg(<<>>, [d EXCEPT !.pc = "poll"])
    ELSE IF d.path = "file"
    THEN IF d.state = "FAILED"
         THEN Throw(d, "Gemini file processing failed. Try a shorter video.")
         ELSE Then(<<U("transcribing", 65, "Transcribing in language...")>>,
                   StartGenerate(d, 1))
    ELSE IF d.state = "FAILED"
         THEN ChunkLoop(d, d.i + 1)
         ELSE StartGenerate(d, 1)

\* a variant of the poll loops without a ceiling
AfterPollNoCeiling(d) ==
    IF d.state = "PROCESSING"
    THEN Seg(<<>>, [d EXCEPT !.pc = "poll", !.waitCount = 0])
    ELSE IF d.path = "file"
    THEN IF d.state = "FAILED"
         THEN Throw(d, "Gemini file processing failed. Try a shorter video.")
         ELSE Then(<<U("transcribing", 65, "Transcribing in language...")>>,
                   StartGenerate(d, 1))
    ELSE IF d.state = "FAILED"
         THEN ChunkLoop(d, d.i + 1)
         ELSE StartGenerate(d, 1)

\* the poll loops after an upload: wait again, or go on to the generation
PollCeiling(d) == IF d.path = "file" THEN FilePollCeiling ELSE ChunkPollCeiling

AfterPoll(d) ==
    IF d.state = "PROCESSING" /\ d.waitCount < PollCeiling(d)
    THEN Seg(<<>>, [d EXCEPT !.pc = "poll"])
    ELSE IF d.path = "file"
    THEN IF d.state = "FAILED"
         THEN Throw(d, "Gemini file processing failed. Try a shorter video.")
         ELSE Then(<<U("transcribing", 65, "Transcribing in language...")>>,
                   StartGenerate(d, 1))
    ELSE IF d.state = "FAILED"
         THEN ChunkLoop(d, d.i + 1)
         ELSE StartGenerate(d, 1)

\* downloadVideo returned an audio file: the rest of processVideoAsync up
\* to the first await of the transcription
AfterDownload(d, apiKey, audioDuration, size, created) ==
    Then(<<U("downloading", 40, "Download complete!"),
           Cap,
           U("transcribing", 45, "Starting transcription...")>>,
         transcribeAudio([d EXCEPT !.files.audio = TRUE], apiKey, audioDuration, size,
                         created))

\* ------------------------------------------------------------ request inputs
h_www_youtube == h_www \o h_youtube
h_netflix == <<"n","e","t","f","l","i","x",".","c","o","m">>
h_vimeo == <<"v","i","m","e","o",".","c","o","m">>

UrlInputs == {NoUrl, BadUrl, Url(h_www_youtube), Url(h_netflix), Url(h_vimeo)}
LanguageInputs == {"", "en", "xx"}

\* ----------------------------------------------------------------- initial
\* the server after start-up: an empty job table; ids holds the ids
\* generateId is going to return
InitWith(ids) ==
    /\ videoJobs = {}
    /\ heap = [j \in {} |-> 0]
    /\ fresh = ids
    /\ dl = [j \in {} |-> 0]
    /\ an = [j \in {} |-> 0]
    /\ cur = NoTask
    /\ todo = <<>>
    /\ geminiApiKey \in BOOLEAN
    /\ resp = NoResp

\* ------------------------------------------------------------ POST process
\* the checks of processVideo, in its order: the error it answers with, or
\* "" when the request is accepted
\* a variant of the checks of processVideo without the language look-up
processVideoErrorAnyLanguage(url, language) ==
    IF ~url.given THEN "Video URL is required"
    ELSE IF language = "" THEN "Language is required"
    ELSE IF ~isValidPlatformUrl(url) THEN "Unsupported platform"
    ELSE ""

processVideoError(url, language) ==
    IF ~url.given THEN "Video URL is required"
    ELSE IF language = "" THEN "Language is required"
    ELSE IF ~isValidPlatformUrl(url) THEN "Unsupported platform"
    ELSE IF ~isSupportedLanguage(language) THEN "Unsupported language"
    ELSE ""

\* the synchronous start of processVideoAsync: its first updateStatus and
\* the code of downloadVideo before its first await
StartProcessVideoAsync ==
    Seg(<<U("downloading", 5, "Starting download..."),
          U("downloading", 10, "Starting download..."),
          U("downloading", 15, "Fetching video information...")>>,
        DlLocals)

processVideo(url, language) ==
    /\ Idle
    /\ IF processVideoError(url, language) # ""
       THEN UNCHANGED <<videoJobs, heap, fresh, dl, an, cur, todo>>
       ELSE \E videoId \in generateId :
            /\ heap' = heap @@ (videoId :> NewVideoData(videoId, url, language))
            /\ videoJobs' = videoJobs \cup {videoId}
            /\ fresh' = fresh \ {videoId}
            /\ dl' = dl @@ (videoId :> StartProcessVideoAsync.d)
            /\ an' = an @@ (videoId :> <<>>)
            /\ todo' = StartProcessVideoAsync.ops
            /\ cur' = DlTask(videoId)
    /\ UNCHANGED geminiApiKey

\* --------------------------------------------------- processVideoAsync steps
\* an awaited call of the download + transcription task of job j returns:
\* the task goes on with segment seg
DlResume(j, seg) ==
    /\ dl' = [dl EXCEPT ![j] = seg.d]
    /\ todo' = seg.ops
    /\ cur' = IF seg.ops = <<>> THEN NoTask ELSE DlTask(j)
    /\ UNCHANGED <<videoJobs, heap, fresh, an, geminiApiKey>>
    /\ resp' = NoResp

DlAt(j, pc) == Idle /\ j \in Generated /\ dl[j].pc = pc

Pop ==
    /\ todo' = Tail(todo)
    /\ cur' = IF Tail(todo) = <<>> THEN NoTask ELSE cur

\* a variant of updateStatus that stores the record back under its key
\* (videoJobs.set(videoId, job)), known or not
updateStatusSetsKey ==
    /\ todo # <<>> /\ Head(todo).k = "upd"
    /\ LET j == cur.job
           o == Head(todo)
       IN  /\ heap' = [heap EXCEPT ![j].status = o.st,
                                   ![j].progress = o.pr,
                                   ![j].statusMessage = o.msg]
           /\ videoJobs' = videoJobs \cup {j}
    /\ Pop
    /\ UNCHANGED <<fresh, dl, an, geminiApiKey>>
    /\ resp' = NoResp

\* updateStatus: a write through the table, nothing for a missing key
updateStatus ==
    /\ todo # <<>> /\ Head(todo).k = "upd"
    /\ LET j == cur.job
           o == Head(todo)
       IN  heap' = IF j \in videoJobs
                   THEN [heap EXCEPT ![j].status = o.st,
                                     ![j].progress = o.pr,
                                     ![j].statusMessage = o.msg]
                   ELSE heap
    /\ Pop
    /\ UNCHANGED <<videoJobs, fresh, dl, an, geminiApiKey>>
    /\ resp' = NoResp

\* const job = videoJobs.get(videoId); if (job) job.audioPath = ...
captureJob ==
    /\ todo # <<>> /\ Head(todo).k = "cap"
    /\ LET j == cur.job
       IN  /\ dl' = [dl EXCEPT ![j].job = IF j \in videoJobs THEN "ref" ELSE "undefined"]
           /\ heap' = IF j \in videoJobs
                      THEN [heap EXCEPT ![j].audioPath = Some("audio")]
                      ELSE heap
    /\ Pop
    /\ UNCHANGED <<videoJobs, fresh, an, geminiApiKey>>
    /\ resp' = NoResp

\* a variant of the last writes of processVideoAsync that leaves the progress
\* where the transcription's callback put it
finishTranscriptionKeepsProgress ==
    /\ todo # <<>> /\ Head(todo).k = "fin"
    /\ LET j == cur.job
       IN  /\ heap' = IF dl[j].job = "ref"
                      THEN [heap EXCEPT ![j].transcription = dl[j].result,
                                        ![j].status = "completed",
                                        ![j].statusMessage = "Transcription complete. Ready for analysis."]
                      ELSE heap
           /\ dl' = [dl EXCEPT ![j] = [DlReturned EXCEPT !.files = dl[j].files]]
    /\ Pop
    /\ UNCHANGED <<videoJobs, fresh, an, geminiApiKey>>
    /\ resp' = NoResp

\* if (job) { job.transcription = ...; job.status = 'completed'; ... } and
\* the return of processVideoAsync
finishTranscription ==
    /\ todo # <<>> /\ Head(todo).k = "fin"
    /\ LET j == cur.job
       IN  /\ heap' = IF dl[j].job = "ref"
                      THEN [heap EXCEPT ![j].transcription = dl[j].result,
                                        ![j].status = "completed",
                                        ![j].progress = 70,
                                        ![j].statusMessage = "Transcription complete. Ready for analysis."]
                      ELSE heap
           /\ dl' = [dl EXCEPT ![j] = [DlReturned EXCEPT !.files = dl[j].files]]
    /\ Pop
    /\ UNCHANGED <<videoJobs, fresh, an, geminiApiKey>>
    /\ resp' = NoResp

\* a variant of the catch block that also drops the failed job from the table
catchProcessErrorDropsJob ==
    /\ todo # <<>> /\ Head(todo).k = "err"
    /\ LET j == cur.job
           o == Head(todo)
       IN  /\ heap' = IF j \in videoJobs
                      THEN [heap EXCEPT ![j].status = "error",
                                        ![j].error = Some(o.msg),
                                        ![j].statusMessage = "Error"]
                      ELSE heap
           /\ dl' = [dl EXCEPT ![j] = [DlReturned EXCEPT !.files = dl[j].files]]
           /\ videoJobs' = videoJobs \ {j}
    /\ Pop
    /\ UNCHANGED <<fresh, an, geminiApiKey>>
    /\ resp' = NoResp

\* the catch block of processVideoAsync and its return
catchProcessError ==
    /\ todo # <<>> /\ Head(todo).k = "err"
    /\ LET j == cur.job
           o == Head(todo)
       IN  /\ heap' = IF j \in videoJobs
                      THEN [heap EXCEPT ![j].status = "error",
                                        ![j].error = Some(o.msg),
                                        ![j].statusMessage = "Error"]
                      ELSE heap
           /\ dl' = [dl EXCEPT ![j] = [DlReturned EXCEPT !.files = dl[j].files]]
    /\ Pop
    /\ UNCHANGED <<videoJobs, fresh, an, geminiApiKey>>
    /\ resp' = NoResp

\* ------------------------------------------------------- downloadVideo awaits
\* await ytdlp(url, {dumpSingleJson}) returns or throws
infoReturns(j, ok) ==
    /\ DlAt(j, "info")
    /\ IF ok
       THEN DlResume(j, Seg(<<U("downloading", 25, "Downloading: title")>>,
                            [dl[j] EXCEPT !.pc = "mp3"]))
       ELSE DlResume(j, Throw(dl[j], "Failed to download video"))

\* the low-bitrate download returns; mp3 tells whether audio.mp3 exists
mp3Returns(j, mp3, audioDuration, size, created) ==
    /\ DlAt(j, "mp3")
    /\ IF mp3
       THEN DlResume(j, AfterDownload(dl[j], geminiApiKey, audioDuration, size, created))
       ELSE DlResume(j, Seg(<<>>, [dl[j] EXCEPT !.pc = "best"]))

\* the fallback download returns: with an audio file, with none, or throws
bestReturns(j, outcome, audioDuration, size, created) ==
    /\ DlAt(j, "best")
    /\ CASE outcome = "file" ->
              DlResume(j, AfterDownload(dl[j], geminiApiKey, audioDuration, size, created))
         [] outcome = "nofile" ->
              DlResume(j, Then(<<U("downloading", 40, "Download complete!")>>,
                               Throw(dl[j], "Failed to download video")))
         [] OTHER ->
              DlResume(j, Throw(dl[j], "Failed to download video"))

\* --------------------------------------------------- transcribeAudio awaits
FileStates == {"PROCESSING", "ACTIVE", "FAILED"}

\* await fileManager.uploadFile(...) inside uploadWithRetry returns the
\* asset in the given state, or throws
uploadReturns(j, ok, state) ==
    /\ DlAt(j, "upload")
    /\ LET d == dl[j] IN
       IF ok
       THEN LET d1 == [d EXCEPT !.state = state, !.waitCount = 0]
            IN  DlResume(j,
                         IF d.path = "file"
                         THEN Then(<<U("transcribing", 55, "Audio uploaded, waiting for processing...")>>,
                                   AfterPoll(d1))
                         ELSE AfterPoll(d1))
       ELSE LET d1 == [d EXCEPT !.lastError = Some(UploadError(d.attempt))]
            IN  DlResume(j,
                         IF d.attempt < MaxUploadRetries
                         THEN Seg(<<>>, [d1 EXCEPT !.pc = "backoff", !.resume = "upload",
                                                  !.delay = 2^d.attempt * 1000])
                         ELSE IF d.path = "file"
                         THEN Throw(d1, d1.lastError[1])
                         ELSE ChunkLoop(unlinkChunk(d1), d.i + 1))

\* the setTimeout between two attempts elapses
backoffElapsed(j) ==
    /\ DlAt(j, "backoff")
    /\ LET d == [dl[j] EXCEPT !.resume = "none", !.delay = 0] IN
       DlResume(j,
                IF dl[j].resume = "upload"
                THEN StartUpload(d, d.attempt + 1)
                ELSE StartGenerate(d, d.attempt + 1))

\* one round of a poll loop: the 2 s wait, then fileManager.getFile returns
\* the asset's state or throws
pollReturns(j, outcome) ==
    /\ DlAt(j, "poll")
    /\ LET d == dl[j]
           d1 == [d EXCEPT !.state = IF outcome = "throw" THEN d.state ELSE outcome,
                           !.waitCount = d.waitCount + 1]
       IN  DlResume(j,
                    IF d.path = "file"
                    THEN Then(<<U("transcribing", 55 + Min(d1.waitCount, 10), "Processing audio...")>>,
                              AfterPoll(d1))
                    ELSE AfterPoll(d1))

\* await model.generateContent(...) of the transcription returns a text
\* with content, returns an empty or blank text, or throws
generateReturns(j, outcome) ==
    /\ DlAt(j, "generate")
    /\ LET d == dl[j]
           dErr == [d EXCEPT !.lastError = Some(GenerateError(d.attempt))]
       IN  DlResume(j,
             IF d.path = "chunk"
             THEN CASE outcome = "text" ->
                         Seg(<<>>, [d EXCEPT !.pc = "delete",
                                             !.texts = Append(d.texts, d.chunks[d.i].startTime)])
                    [] outcome = "empty" -> Seg(<<>>, [d EXCEPT !.pc = "delete"])
                    [] OTHER -> ChunkLoop(unlinkChunk(d), d.i + 1)
             ELSE CASE outcome = "text" ->
                         IF d.path = "file"
                         THEN Seg(<<>>, [d EXCEPT !.pc = "delete"])
                         ELSE Seg(<<U("transcribing", 70, "Transcription complete!"), Fin>>,
                                  [d EXCEPT !.pc = "sync", !.result = Some(WholeText)])
                    [] outcome = "empty" ->
                         IF d.attempt < MaxGenerateAttempts
                         THEN StartGenerate(d, d.attempt + 1)
                         ELSE GenerateExhausted(d)
                    [] OTHER ->
                         IF d.attempt < MaxGenerateAttempts
                         THEN Seg(<<>>, [dErr EXCEPT !.pc = "backoff", !.resume = "generate",
                                                    !.delay = IF d.path = "inline" THEN 2000
                                                              ELSE 3000])
                         ELSE GenerateExhausted(dErr))

\* await fileManager.deleteFile(...) returns or throws; both are swallowed
deleteReturns(j, ok) ==
    /\ DlAt(j, "delete")
    /\ LET d == dl[j] IN
       DlResume(j,
                IF d.path = "file"
                THEN Seg(<<U("transcribing", 70, "Transcription complete!"), Fin>>,
                         [d EXCEPT !.pc = "sync", !.result = Some(WholeText)])
                ELSE ChunkLoop(unlinkChunk(d), d.i + 1))

\* ------------------------------------------------------ factCheckTranscription
VerdictScores == {85}
Placeholder == "Unable to extract specific claims"

DefaultVerdict == [claimIndex |-> 0, status |-> "unverifiable", score |-> 50, sources |-> <<>>]

\* the verdicts substituted for an unparseable verification response
FallbackVerdicts(extracted) ==
    [index \in 1..Len(extracted) |->
        [claimIndex |-> index - 1, status |-> "unverifiable", score |-> 50,
         sources |-> <<>>]]

\* a variant of the claim assembly that keeps the verifier's sources
buildClaimsKeepsSources(extracted, factCheckData) ==
    [index \in 1..Len(extracted) |->
        LET hits == {f \in 1..Len(factCheckData) : factCheckData[f].claimIndex = index - 1}
            checkResult == IF hits = {} THEN DefaultVerdict
                           ELSE factCheckData[CHOOSE f \in hits : \A g \in hits : f <= g]
        IN  [text |-> extracted[index],
             status |-> checkResult.status,
             score |-> checkResult.score,
             sources |-> checkResult.sources]]

\* a variant of the claim assembly that takes the verdict standing at the
\* claim's own position
buildClaimsByPosition(extracted, factCheckData) ==
    [index \in 1..Len(extracted) |->
        LET checkResult == IF index > Len(factCheckData) THEN DefaultVerdict
                           ELSE factCheckData[index]
        IN  [text |-> extracted[index],
             status |-> checkResult.status,
             score |-> checkResult.score,
             sources |-> IF checkResult.status = "true" THEN <<>> ELSE checkResult.sources]]

\* "Build final claims array": extractedClaims.map with factCheckData.find
buildClaims(extracted, factCheckData) ==
    [index \in 1..Len(extracted) |->
        LET hits == {f \in 1..Len(factCheckData) : factCheckData[f].claimIndex = index - 1}
            checkResult == IF hits = {} THEN DefaultVerdict
                           ELSE factCheckData[CHOOSE f \in hits : \A g \in hits : f <= g]
        IN  [text |-> extracted[index],
             status |-> checkResult.status,
             score |-> checkResult.score,
             sources |-> IF checkResult.status = "true" THEN <<>> ELSE checkResult.sources]]

Count(claims, st) == Cardinality({c \in 1..Len(claims) : claims[c].status = st})

\* a variant of the rounding that drops the fraction
RoundDivTruncates(a, b) == a \div b

\* Math.round of a non-negative quotient
RoundDiv(a, b) == (2 * a + b) \div (2 * b)

overallScore(claims) ==
    IF Len(claims) = 0 THEN 100
    ELSE RoundDiv(Count(claims, "true") * 100
                  + Count(claims, "partially_true") * 50
                  + Count(claims, "unverifiable") * 50
                  + Count(claims, "false") * 0,
                  Len(claims))

\* array: whether JSON.parse gave extractedClaims an array
AnLocals ==
    [pc |-> "extract", extracted |-> <<>>, array |-> TRUE, claims |-> <<>>,
     overallScore |-> 0]

\* factCheckTranscription up to its first await
StartFactCheck(apiKey) ==
    IF ~apiKey
    THEN Seg(<<AErr("Gemini API key not configured")>>, [AnLocals EXCEPT !.pc = "sync"])
    ELSE Seg(<<AProg(75, "Extracting claims from transcription...")>>, AnLocals)

\* ------------------------------------------------------------- POST analyze
\* a variant of the checks of analyzeVideo without the status check
analyzeVideoErrorWhileAnalyzing(id) ==
    IF id \notin videoJobs THEN "Video not found"
    ELSE IF heap[id].transcription = None THEN "Video not yet transcribed"
    ELSE ""

\* a variant of the checks of analyzeVideo without the transcription check
analyzeVideoErrorUntranscribed(id) ==
    IF id \notin videoJobs THEN "Video not found"
    ELSE IF heap[id].status = "analyzing" THEN "Analysis already in progress"
    ELSE ""

analyzeVideoError(id) ==
    IF id \notin videoJobs THEN "Video not found"
    ELSE IF heap[id].transcription = None THEN "Video not yet transcribed"
    ELSE IF heap[id].status = "analyzing" THEN "Analysis already in progress"
    ELSE ""

\* a variant of analyzeVideo that drops the report of an earlier analysis
\* when it starts a new one
analyzeVideoClearsReport(id) ==
    /\ Idle
    /\ IF analyzeVideoError(id) # ""
       THEN UNCHANGED <<heap, an, cur, todo>>
       ELSE /\ heap' = [heap EXCEPT ![id].status = "analyzing",
                                    ![id].progress = 75,
                                    ![id].statusMessage = "Starting fact-check analysis...",
                                    ![id].claims = None,
                                    ![id].overallScore = None]
            /\ an' = [an EXCEPT ![id] = Append(an[id], StartFactCheck(geminiApiKey).d)]
            /\ todo' = StartFactCheck(geminiApiKey).ops
            /\ cur' = AnTask(id, Len(an[id]) + 1)
    /\ UNCHANGED <<videoJobs, fresh, dl, geminiApiKey>>

analyzeVideo(id) ==
    /\ Idle
    /\ IF analyzeVideoError(id) # ""
       THEN UNCHANGED <<heap, an, cur, todo>>
       ELSE /\ heap' = [heap EXCEPT ![id].status = "analyzing",
                                    ![id].progress = 75,
                                    ![id].statusMessage = "Starting fact-check analysis..."]
            /\ an' = [an EXCEPT ![id] = Append(an[id], StartFactCheck(geminiApiKey).d)]
            /\ todo' = StartFactCheck(geminiApiKey).ops
            /\ cur' = AnTask(id, Len(an[id]) + 1)
    /\ UNCHANGED <<videoJobs, fresh, dl, geminiApiKey>>

\* --------------------------------------------------- analyzeVideoAsync steps
AnAt(j, k, pc) == Idle /\ j \in Generated /\ k \in 1..Len(an[j]) /\ an[j][k].pc = pc

AnResume(j, k, seg) ==
    /\ an' = [an EXCEPT ![j][k] = seg.d]
    /\ todo' = seg.ops
    /\ cur' = AnTask(j, k)
    /\ UNCHANGED <<videoJobs, heap, fresh, dl, geminiApiKey>>
    /\ resp' = NoResp

Remove(seq, k) == SubSeq(seq, 1, k - 1) \o SubSeq(seq, k + 1, Len(seq))

\* the extraction call returns: it throws, or its text parses to an array
\* of claims, or does not parse (one placeholder claim), or parses to null
\* (no .length: a TypeError), or parses to an object or a number (.length
\* is undefined, the TypeError comes with .map after the verification)
extractReturns(j, k, outcome, extracted) ==
    /\ AnAt(j, k, "extract")
    /\ LET a == an[j][k] IN
       CASE outcome \in {"throw", "null"} ->
              AnResume(j, k, Seg(<<AErr("Fact-checking failed")>>, [a EXCEPT !.pc = "sync"]))
         [] outcome = "object" ->
              AnResume(j, k, Seg(<<AProg(80, "Fact-checking claims...")>>,
                                 [a EXCEPT !.pc = "verify", !.array = FALSE]))
         [] outcome = "unparseable" ->
              AnResume(j, k, Seg(<<AProg(80, "Fact-checking claims...")>>,
                                 [a EXCEPT !.pc = "verify", !.extracted = <<Placeholder>>]))
         [] OTHER ->
              IF Len(extracted) = 0
              THEN AnResume(j, k, Seg(<<ADone>>,
                                      [a EXCEPT !.pc = "sync", !.claims = <<>>,
                                                !.overallScore = 100]))
              ELSE AnResume(j, k, Seg(<<AProg(80, "Fact-checking claims...")>>,
                                      [a EXCEPT !.pc = "verify", !.extracted = extracted]))

\* the verification call returns: it throws, or its text parses to the
\* array factCheckData, or does not parse (every claim unverifiable), or
\* parses to something without .find (a TypeError); extractedClaims.map is
\* a TypeError when the extraction gave no array
verifyReturns(j, k, outcome, factCheckData) ==
    /\ AnAt(j, k, "verify")
    /\ LET a == an[j][k]
           data == IF outcome = "unparseable" THEN FallbackVerdicts(a.extracted)
                   ELSE factCheckData
           claims == buildClaims(a.extracted, data)
       IN  IF outcome = "throw" \/ (outcome = "unparseable" /\ ~a.array)
           THEN AnResume(j, k, Seg(<<AErr("Fact-checking failed")>>, [a EXCEPT !.pc = "sync"]))
           ELSE IF outcome \in {"null", "object"} \/ ~a.array
           THEN AnResume(j, k, Seg(<<AProg(90, "Calculating final scores..."),
                                     AErr("Fact-checking failed")>>,
                                   [a EXCEPT !.pc = "sync"]))
           ELSE AnResume(j, k,
                         Seg(<<AProg(90, "Calculating final scores..."),
                               AProg(100, "Analysis complete!"),
                               ADone>>,
                             [a EXCEPT !.pc = "sync", !.claims = claims,
                                       !.overallScore = overallScore(claims)]))

\* the progress callback: writes through the job captured at the start
analysisProgress ==
    /\ todo # <<>> /\ Head(todo).k = "aprog"
    /\ LET j == cur.job
           o == Head(todo)
       IN  heap' = [heap EXCEPT ![j].progress = o.pr, ![j].statusMessage = o.msg]
    /\ Pop
    /\ UNCHANGED <<videoJobs, fresh, dl, an, geminiApiKey>>
    /\ resp' = NoResp

\* a variant of the last writes of analyzeVideoAsync that leaves overallScore
\* as it was
finishAnalysisKeepsScore ==
    /\ todo # <<>> /\ Head(todo).k = "adone"
    /\ LET j == cur.job
           a == an[j][cur.idx]
       IN  /\ heap' = [heap EXCEPT ![j].claims = Some(a.claims),
                                   ![j].status = "completed",
                                   ![j].progress = 100,
                                   ![j].statusMessage = "Analysis complete!"]
           /\ an' = [an EXCEPT ![j] = Remove(an[j], cur.idx)]
    /\ Pop
    /\ UNCHANGED <<videoJobs, fresh, dl, geminiApiKey>>
    /\ resp' = NoResp

\* job.claims = result.claims; ... job.status = 'completed'; and the return
finishAnalysis ==
    /\ todo # <<>> /\ Head(todo).k = "adone"
    /\ LET j == cur.job
           a == an[j][cur.idx]
       IN  /\ heap' = [heap EXCEPT ![j].claims = Some(a.claims),
                                   ![j].overallScore = Some(a.overallScore),
                                   ![j].status = "completed",
                                   ![j].progress = 100,
                                   ![j].statusMessage = "Analysis complete!"]
           /\ an' = [an EXCEPT ![j] = Remove(an[j], cur.idx)]
    /\ Pop
    /\ UNCHANGED <<videoJobs, fresh, dl, geminiApiKey>>
    /\ resp' = NoResp

\* a variant of the catch block of analyzeVideoAsync that drops the claims of
\* an earlier analysis
catchAnalysisErrorClearsClaims ==
    /\ todo # <<>> /\ Head(todo).k = "aerr"
    /\ LET j == cur.job
           o == Head(todo)
       IN  /\ heap' = [heap EXCEPT ![j].status = "error",
                                   ![j].error = Some(o.msg),
                                   ![j].statusMessage = "Analysis error",
                                   ![j].claims = None]
           /\ an' = [an EXCEPT ![j] = Remove(an[j], cur.idx)]
    /\ Pop
    /\ UNCHANGED <<videoJobs, fresh, dl, geminiApiKey>>
    /\ resp' = NoResp

\* a variant of the catch block of analyzeVideoAsync that sets the status only
catchAnalysisErrorNoMessage ==
    /\ todo # <<>> /\ Head(todo).k = "aerr"
    /\ LET j == cur.job
       IN  /\ heap' = [heap EXCEPT ![j].status = "error",
                                   ![j].statusMessage = "Analysis error"]
           /\ an' = [an EXCEPT ![j] = Remove(an[j], cur.idx)]
    /\ Pop
    /\ UNCHANGED <<videoJobs, fresh, dl, geminiApiKey>>
    /\ resp' = NoResp

\* the catch block of analyzeVideoAsync and its return
catchAnalysisError ==
    /\ todo # <<>> /\ Head(todo).k = "aerr"
    /\ LET j == cur.job
           o == Head(todo)
       IN  /\ heap' = [heap EXCEPT ![j].status = "error",
                                   ![j].error = Some(o.msg),
                                   ![j].statusMessage = "Analysis error"]
           /\ an' = [an EXCEPT ![j] = Remove(an[j], cur.idx)]
    /\ Pop
    /\ UNCHANGED <<videoJobs, fresh, dl, geminiApiKey>>
    /\ resp' = NoResp

\* ------------------------------------------------------- read-only handlers
\* a variant of the reply of GET status that hands out the transcript
\* whatever the status
getVideoStatusReplyAnyStatus(id) ==
    IF id \notin videoJobs
    THEN [code |-> 404, error |-> Some("Video not found"), status |-> "",
          progress |-> 0, statusMessage |-> "", transcription |-> None]
    ELSE [code |-> 200,
          error |-> heap[id].error,
          status |-> heap[id].status,
          progress |-> heap[id].progress,
          statusMessage |-> heap[id].statusMessage,
          transcription |-> heap[id].transcription]

\* what GET status answers for id in the current state
getVideoStatusReply(id) ==
    IF id \notin videoJobs
    THEN [code |-> 404, error |-> Some("Video not found"), status |-> "",
          progress |-> 0, statusMessage |-> "", transcription |-> None]
    ELSE [code |-> 200,
          error |-> heap[id].error,
          status |-> heap[id].status,
          progress |-> heap[id].progress,
          statusMessage |-> heap[id].statusMessage,
          transcription |-> IF heap[id].status = "completed" \/ heap[id].status = "analyzing"
                            THEN heap[id].transcription
                            ELSE None]

\* a variant of getVideoStatus that forgets a failed job once its failure
\* has been reported
getVideoStatusEvicts(id) ==
    /\ Idle
    /\ getVideoStatusReply(id).code \in {200, 404}
    /\ videoJobs' = IF id \in videoJobs /\ heap[id].status = "error"
                    THEN videoJobs \ {id}
                    ELSE videoJobs
    /\ UNCHANGED <<heap, fresh, dl, an, cur, todo, geminiApiKey>>

getVideoStatus(id) ==
    /\ Idle
    /\ getVideoStatusReply(id).code \in {200, 404}
    /\ UNCHANGED server

\* the error GET results answers with, or "" when it returns the report
\* a variant of the check of getVideoResults that looks at the status
getVideoResultsErrorByStatus(id) ==
    IF id \notin videoJobs THEN "Video not found"
    ELSE IF heap[id].status # "completed" THEN "Analysis not yet complete"
    ELSE ""

getVideoResultsError(id) ==
    IF id \notin videoJobs THEN "Video not found"
    ELSE IF heap[id].claims = None \/ heap[id].overallScore = None
    THEN "Analysis not yet complete"
    ELSE ""

\* the summary getVideoResults computes from the claims of the job
getVideoResultsSummary(id) ==
    LET claims == heap[id].claims[1]
    IN  [totalClaims |-> Len(claims),
         trueClaims |-> Count(claims, "true"),
         falseClaims |-> Count(claims, "false"),
         partiallyTrueClaims |-> Count(claims, "partially_true"),
         unverifiableClaims |-> Count(claims, "unverifiable")]

getVideoResults(id) ==
    /\ Idle
    /\ getVideoResultsError(id) \in {"", "Video not found", "Analysis not yet complete"}
    /\ UNCHANGED server

\* ------------------------------------------------------------------- DELETE
\* cleanupTempFiles: fs.rmSync of the job's directory
cleanupTempFiles(files) == NoFiles

deleteVideoError(id) == IF id \notin videoJobs THEN "Video not found" ELSE ""

deleteVideo(id) ==
    /\ Idle
    /\ IF deleteVideoError(id) # ""
       THEN UNCHANGED <<videoJobs, dl>>
       ELSE /\ videoJobs' = videoJobs \ {id}
            /\ dl' = [dl EXCEPT ![id].files = cleanupTempFiles(@)]
    /\ UNCHANGED <<heap, fresh, an, cur, todo, geminiApiKey>>

\* ----------------------------------------------------------- specification
\* the chunk files an extraction can leave: every window, or, for an audio
\* that is split, any subset of the windows
CreatedChoices(audioDuration) ==
    IF GreaterThan(audioDuration, CHUNKING_THRESHOLD_SECONDS)
    THEN SUBSET Windows(audioDuration, CHUNK_DURATION_SECONDS)
    ELSE {Windows(audioDuration, CHUNK_DURATION_SECONDS)}

\* the arrays an extraction response can parse to
ExtractedChoices ==
    UNION {[1..n -> {"claim"}] : n \in 0..MaxClaims}

\* the arrays a verification response can parse to
VerdictStatuses == {"true", "false"}

Verdicts ==
    [claimIndex : 0..MaxClaims, status : VerdictStatuses, score : VerdictScores,
     sources : {<<"source">>}]

VerdictChoices ==
    UNION {[1..n -> Verdicts] : n \in 0..MaxClaims}

\* what a poll can answer: the asset leaves PROCESSING within MaxPolls polls
PollOutcomes(j) ==
    IF j \in Generated /\ dl[j].waitCount < MaxPolls
    THEN FileStates \cup {"throw"}
    ELSE {"ACTIVE", "FAILED"}

\* the steps of the background tasks that write to a job
Writes ==
    \/ updateStatus
    \/ captureJob
    \/ finishTranscription
    \/ catchProcessError
    \/ analysisProgress
    \/ finishAnalysis
    \/ catchAnalysisError

\* the status code that goes with an error text
CodeOf(error) ==
    IF error = "" THEN 200 ELSE IF error = "Video not found" THEN 404 ELSE 400

\* the requests by id, their responses not recorded
Requests ==
    \/ \E id \in RequestIds : getVideoStatus(id) /\ UNCHANGED resp
    \/ \E id \in RequestIds : analyzeVideo(id) /\ UNCHANGED resp
    \/ \E id \in RequestIds : getVideoResults(id) /\ UNCHANGED resp
    \/ \E id \in RequestIds : deleteVideo(id) /\ UNCHANGED resp

Submit(urls, languages) ==
    \E url \in urls, language \in languages : processVideo(url, language) /\ UNCHANGED resp

\* the same requests, each leaving its response in resp
RecordedRequests ==
    \/ \E id \in RequestIds :
          /\ getVideoStatus(id)
          /\ resp' = Reply("status", id, NoUrl, "", getVideoStatusReply(id).code,
                           IF getVideoStatusReply(id).code = 404 THEN "Video not found" ELSE "")
    \/ \E id \in RequestIds :
          /\ analyzeVideo(id)
          /\ resp' = Reply("analyze", id, NoUrl, "",
                           CodeOf(analyzeVideoError(id)), analyzeVideoError(id))
    \/ \E id \in RequestIds :
          /\ getVideoResults(id)
          /\ resp' = Reply("results", id, NoUrl, "",
                           CodeOf(getVideoResultsError(id)), getVideoResultsError(id))
    \/ \E id \in RequestIds :
          /\ deleteVideo(id)
          /\ resp' = Reply("delete", id, NoUrl, "",
                           CodeOf(deleteVideoError(id)), deleteVideoError(id))

RecordedSubmit(urls, languages) ==
    \E url \in urls, language \in languages :
       /\ processVideo(url, language)
       /\ resp' = Reply("process",
                        IF videoJobs' = videoJobs THEN NoSuchId
                        ELSE CHOOSE id \in videoJobs' \ videoJobs : TRUE,
                        url, language,
                        CodeOf(processVideoError(url, language)),
                        processVideoError(url, language))

Analysis(outcomes) ==
    \/ \E j \in Ids, k \in 1..2, outcome \in outcomes, extracted \in ExtractedChoices :
          extractReturns(j, k, outcome, extracted)
    \/ \E j \in Ids, k \in 1..2, outcome \in outcomes, factCheckData \in VerdictChoices :
          verifyReturns(j, k, outcome, factCheckData)

\* one job, every outcome of every external call
Next ==
    \/ Submit(UrlInputs, LanguageInputs)
    \/ Requests
    \/ Writes
    \/ Analysis({"array", "unparseable", "throw"})
    \/ \E j \in Ids, ok \in BOOLEAN : infoReturns(j, ok)
    \/ \E j \in Ids, mp3 \in BOOLEAN, audioDuration \in Durations, size \in Sizes :
          \E created \in CreatedChoices(audioDuration) :
             mp3Returns(j, mp3, audioDuration, size, created)
    \/ \E j \in Ids, outcome \in {"file", "nofile", "throw"},
          audioDuration \in Durations, size \in Sizes :
          \E created \in CreatedChoices(audioDuration) :
             bestReturns(j, outcome, audioDuration, size, created)
    \/ \E j \in Ids, ok \in BOOLEAN, state \in FileStates : uploadReturns(j, ok, state)
    \/ \E j \in Ids : backoffElapsed(j)
    \/ \E j \in Ids : \E outcome \in PollOutcomes(j) : pollReturns(j, outcome)
    \/ \E j \in Ids, outcome \in {"text", "empty", "throw"} : generateReturns(j, outcome)
    \/ \E j \in Ids, ok \in BOOLEAN : deleteReturns(j, ok)

Init == InitWith({1})

Spec == Init /\ [][Next]_vars

\* MaxJobs jobs side by side; every audio is short and small, so that each
\* transcription takes the inline path
ShortAudio == [duration |-> 0, size |-> FILE_SIZE_THRESHOLD]
ShortUrlInputs == {NoUrl, BadUrl, Url(h_www_youtube), Url(h_vimeo)}

\* the external calls of a job whose audio is short
ShortAudioCalls ==
    \/ \E j \in Ids, ok \in BOOLEAN : infoReturns(j, ok)
    \/ \E j \in Ids, mp3 \in BOOLEAN :
          mp3Returns(j, mp3, ShortAudio.duration, ShortAudio.size,
                     Windows(ShortAudio.duration, CHUNK_DURATION_SECONDS))
    \/ \E j \in Ids, outcome \in {"file", "nofile", "throw"} :
          bestReturns(j, outcome, ShortAudio.duration, ShortAudio.size,
                      Windows(ShortAudio.duration, CHUNK_DURATION_SECONDS))
    \/ \E j \in Ids : backoffElapsed(j)
    \/ \E j \in Ids, outcome \in {"text", "empty", "throw"} : generateReturns(j, outcome)

NextJobs ==
    \/ Submit(ShortUrlInputs, LanguageInputs)
    \/ Requests
    \/ Writes
    \/ Analysis({"array", "throw"})
    \/ ShortAudioCalls

InitJobs == InitWith(Ids)

SpecJobs == InitJobs /\ [][NextJobs]_vars

\* one job with a short audio, every response recorded
NextLog ==
    \/ RecordedSubmit(UrlInputs, LanguageInputs)
    \/ RecordedRequests
    \/ Writes
    \/ Analysis({"array", "throw"})
    \/ ShortAudioCalls

SpecLog == Init /\ [][NextLog]_vars

\* ------------------------------------------------------------ the claims
\* the job table as a request sees it: the record under each key
Table == [id \in videoJobs |-> heap[id]]

\* the state of a job in the words of the specification: a completed job is
\* transcribed until it has claims, analyzed from then on
Phase(job) ==
    IF job.status # "completed" THEN job.status
    ELSE IF job.claims = None THEN "transcribed" ELSE "analyzed"

\* the jobs a step keeps in the table
Kept == videoJobs \cap videoJobs'

\* C1: for every job and every step, if the job's status after the step is
\* not error, its progress after the step is at least its progress before.
ProgressNeverDecreases ==
    [][\A id \in Kept :
          heap'[id].status # "error" => heap'[id].progress >= heap[id].progress]_vars

\* the status changes the specification allows
StatusEdges ==
    {<<"pending", "downloading">>, <<"downloading", "transcribing">>,
     <<"transcribing", "transcribed">>, <<"transcribed", "analyzing">>,
     <<"analyzing", "analyzed">>, <<"downloading", "error">>,
     <<"transcribing", "error">>, <<"analyzing", "error">>}

\* C2: a job's status changes only along the edges pending -> downloading ->
\* transcribing -> completed(transcribed) -> analyzing -> completed(analyzed),
\* and from downloading, transcribing or analyzing to error.
StatusChangesAlongEdges ==
    [][\A id \in Kept :
          Phase(heap'[id]) # Phase(heap[id])
             => <<Phase(heap[id]), Phase(heap'[id])>> \in StatusEdges]_vars

\* C3: error is terminal: once a job's status is error, no step changes it.
ErrorIsTerminal ==
    [][\A id \in Kept :
          heap[id].status = "error" => heap'[id].status = "error"]_vars

\* C4: a job becomes analyzing only from completed(transcribed), and a job in
\* completed(analyzed) never changes status, progress, claims or overallScore.
AnalyzedIsFinal ==
    [][\A id \in Kept :
          /\ (heap'[id].status = "analyzing" /\ heap[id].status # "analyzing")
                => Phase(heap[id]) = "transcribed"
          /\ Phase(heap[id]) = "analyzed"
                => /\ heap'[id].status = heap[id].status
                   /\ heap'[id].progress = heap[id].progress
                   /\ heap'[id].claims = heap[id].claims
                   /\ heap'[id].overallScore = heap[id].overallScore]_vars

\* the background tasks of job id that have started and not returned
Running(id) == (IF dl[id].pc = "done" THEN 0 ELSE 1) + Len(an[id])

\* C5: for every job, at most one background task (the download+transcribe
\* task or an analysis task) is running at any time.
OneTaskPerJob == \A id \in Generated : Running(id) <= 1

\* C5, its case: an analysis task runs, the download+transcribe task has
\* returned, and a second analysis request would be refused
AnalysisRunsAlone ==
    \E id \in videoJobs :
       /\ Len(an[id]) = 1 /\ dl[id].pc = "done" /\ Idle
       /\ analyzeVideoError(id) = "Analysis already in progress"

\* t is the end of h
IsSuffix(t, h) == Len(t) <= Len(h) /\ SubSeq(h, Len(h) - Len(t) + 1, Len(h)) = t

\* host is an allow-listed platform domain or a subdomain of one
AllowListed(host) ==
    \E p \in 1..Len(supportedPlatforms) :
       \/ host = supportedPlatforms[p]
       \/ IsSuffix(<<".">> \o supportedPlatforms[p], host)

\* C9: submit accepts a URL only if its host is one of the allow-listed
\* platform domains or a subdomain of one: every job has such a URL.
OnlyAllowListedHosts == \A id \in Generated : AllowListed(heap[id].url.host)

\* C10: requestAnalysis answers NotFound for an unknown id, NotReady for a job
\* without transcript (pending, downloading, transcribing, or failed before
\* the transcription finished) and AlreadyInProgress for an analyzing job; a
\* failing request changes nothing and schedules no analysis task.
AnalyzeRefusals ==
    [][resp'.op = "analyze" =>
         LET id == resp'.id
         IN  /\ id \notin videoJobs
                  => resp'.code = 404 /\ resp'.error = "Video not found"
             /\ (id \in videoJobs /\ heap[id].transcription = None)
                  => resp'.code = 400 /\ resp'.error = "Video not yet transcribed"
             /\ (id \in videoJobs /\ heap[id].status \in {"pending", "downloading", "transcribing"})
                  => resp'.error = "Video not yet transcribed"
             /\ (id \in videoJobs /\ heap[id].status = "analyzing")
                  => resp'.code = 400 /\ resp'.error = "Analysis already in progress"
             /\ resp'.code # 200 => UNCHANGED server]_vars

\* C10, its case: a request for analysis was refused while an analysis of
\* the job was running
AnalyzeRefusedWhileAnalyzing ==
    /\ resp.op = "analyze" /\ resp.error = "Analysis already in progress"
    /\ resp.id \in videoJobs /\ Len(an[resp.id]) = 1

\* a request the checks of submit must refuse
Invalid(url, language) ==
    \/ ~url.given
    \/ language = ""
    \/ ~isValidPlatformUrl(url)
    \/ ~isSupportedLanguage(language)

\* C7: submit with a missing url, a missing language, a URL that fails the
\* platform check or an unsupported language fails with InvalidInput, leaves
\* the job table unchanged and schedules no background task.
InvalidSubmitChangesNothing ==
    [][(resp'.op = "process" /\ Invalid(resp'.url, resp'.language))
          => resp'.code = 400 /\ UNCHANGED server]_vars

\* C7, its case: a submit with a supported URL and an unsupported language
\* was refused
UnsupportedLanguageRefused ==
    /\ resp.op = "process" /\ resp.code = 400
    /\ resp.url = Url(h_www_youtube) /\ resp.language = "xx"
    /\ videoJobs = {} /\ todo = <<>>

\* C8: a successful submit inserts the job with status pending and progress 0
\* before any step of its background task; the job leaves the table only by a
\* successful deleteJob, and until then getStatus for it succeeds.
VisibleUntilDeleted ==
    [][/\ (resp'.op = "process" /\ resp'.code = 200)
            => resp'.id \in videoJobs' \ videoJobs
       /\ \A id \in videoJobs' \ videoJobs :
            /\ heap'[id].status = "pending" /\ heap'[id].progress = 0
            /\ dl'[id] = DlLocals /\ an'[id] = <<>>
       /\ \A id \in videoJobs \ videoJobs' :
            resp' = Reply("delete", id, NoUrl, "", 200, "")
       /\ (resp'.op = "status" /\ resp'.id \in videoJobs)
            => resp'.code = 200]_vars

\* C8, its case: getStatus succeeded for a job whose task had failed
StatusOfFailedJob ==
    /\ resp.op = "status" /\ resp.code = 200
    /\ resp.id \in videoJobs /\ heap[resp.id].status = "error"

\* a step of a background task of job id
TaskStep(id) == todo # <<>> /\ cur.job = id

\* C6: deleteJob on an unknown id answers NotFound and changes nothing; on a
\* known id it removes the record, and the table never holds the id again:
\* every later request for it answers NotFound, and every write of a task of
\* the job that still runs leaves the table as it is.
DeletedStaysDeleted ==
    [][/\ resp'.op = "delete" =>
            IF resp'.id \in videoJobs
            THEN resp'.code = 200 /\ resp'.id \notin videoJobs'
            ELSE resp'.code = 404 /\ UNCHANGED server
       /\ \A id \in Generated \ videoJobs :
            /\ id \notin videoJobs'
            /\ (resp'.op \in {"status", "analyze", "results", "delete"} /\ resp'.id = id)
                  => resp'.code = 404 /\ resp'.error = "Video not found"
            /\ TaskStep(id) => Table' = Table]_vars

\* C6, its case: the analysis task of a deleted job has written its last
\* progress to the record it holds, and the table does not hold the job
WriteAfterDelete ==
    \E id \in Generated \ videoJobs :
       /\ Len(an[id]) = 1 /\ heap[id].progress = 100
       /\ TaskStep(id)

\* C11: getResults answers NotFound for an unknown id and AnalysisIncomplete
\* for every job whose claims or overallScore is absent, whatever its status;
\* it succeeds exactly when both are present, and it never changes the job.
ResultsRefusals ==
    [][resp'.op = "results" =>
         LET id == resp'.id
         IN  /\ UNCHANGED server
             /\ resp'.code \in {200, 400, 404}
             /\ id \notin videoJobs
                  => resp'.code = 404 /\ resp'.error = "Video not found"
             /\ (id \in videoJobs /\ (heap[id].claims = None \/ heap[id].overallScore = None))
                  => resp'.code = 400 /\ resp'.error = "Analysis not yet complete"
             /\ (id \in videoJobs /\ heap[id].claims # None /\ heap[id].overallScore # None)
                  <=> resp'.code = 200]_vars

\* C11, its case: getResults was refused for a job whose download or
\* transcription had failed
ResultsRefusedForFailedJob ==
    /\ resp.op = "results" /\ resp.code = 400
    /\ resp.id \in videoJobs /\ heap[resp.id].status = "error"
    /\ heap[resp.id].claims = None

\* ------------------------------------------------- the fact check on its own
\* One job whose analysis request has been acknowledged and whose fact check
\* has reported its first progress; the extraction returns up to MaxScored
\* claims, and the verifier answers each claim with any status string.

\* the status strings of a verification response: the cast of line 178
\* lets any string through
ScoredStatuses == ClaimStatuses \cup {"mostly_true"}

\* status and sources of one element of a verification response; an element
\* with status true always names a source here
ScoredShapes ==
    {[status |-> "true", sources |-> <<"source">>],
     [status |-> "false", sources |-> <<"source">>]}
    \cup {[status |-> st, sources |-> <<>>] : st \in ScoredStatuses \ {"true", "false"}}

\* the verification responses that answer claim by claim
ScoredVerdictChoices(n) ==
    {[index \in 1..n |->
         [claimIndex |-> index - 1, status |-> shape[index].status,
          score |-> 85, sources |-> shape[index].sources]] :
       shape \in [1..n -> ScoredShapes]}

\* the verification responses for at most MaxMatched claims that name any
\* claimIndex at any position, twice or not at all; the score of an element
\* tells its position, and is out of range or not
MatchedVerdictChoices(n) ==
    IF n > MaxMatched THEN {}
    ELSE UNION {{[p \in 1..m |->
                    [claimIndex |-> pick[p].claimIndex, status |-> "false",
                     score |-> pick[p].excess + p, sources |-> <<"source">>]] :
                  pick \in [1..m -> [claimIndex : 0..n, excess : {0, 100}]]} :
                m \in 0..n}

\* what a response text can parse to when it is JSON but no array
NotArrays == {"null", "object"}

ScoredExtractedChoices == UNION {[1..n -> {"claim"}] : n \in 0..MaxScored}

InitScore ==
    /\ videoJobs = {1}
    /\ heap = (1 :> [NewVideoData(1, Url(h_www_youtube), "en") EXCEPT
                        !.status = "analyzing",
                        !.progress = 75,
                        !.statusMessage = "Extracting claims from transcription...",
                        !.audioPath = Some("audio"),
                        !.transcription = Some(WholeText)])
    /\ fresh = {}
    /\ dl = (1 :> DlReturned)
    /\ an = (1 :> <<AnLocals>>)
    /\ cur = NoTask
    /\ todo = <<>>
    /\ geminiApiKey = TRUE
    /\ resp = NoResp

\* the number of claims the running fact check extracted
ScoredLen == IF an[1] = <<>> THEN 0 ELSE Len(an[1][1].extracted)

NextScore ==
    \/ \E extracted \in ScoredExtractedChoices : extractReturns(1, 1, "array", extracted)
    \/ \E outcome \in {"unparseable", "throw"} \cup NotArrays : extractReturns(1, 1, outcome, <<>>)
    \/ \E factCheckData \in ScoredVerdictChoices(ScoredLen) :
          verifyReturns(1, 1, "array", factCheckData)
    \/ \E factCheckData \in MatchedVerdictChoices(ScoredLen) :
          verifyReturns(1, 1, "array", factCheckData)
    \/ \E outcome \in {"unparseable", "throw"} \cup NotArrays : verifyReturns(1, 1, outcome, <<>>)
    \/ analysisProgress
    \/ finishAnalysis
    \/ catchAnalysisError
    \/ /\ getVideoResults(1)
       /\ resp' = Reply("results", 1, NoUrl, "",
                        CodeOf(getVideoResultsError(1)), getVideoResultsError(1))

SpecScore == InitScore /\ [][NextScore]_vars

\* C12: whenever getResults succeeds, the four status counts of its summary
\* add up to the number of claims, which is the summary's totalClaims.
SummaryCountsAddUp ==
    (resp.op = "results" /\ resp.code = 200) =>
        LET summary == getVideoResultsSummary(resp.id)
        IN  /\ summary.totalClaims = Len(heap[resp.id].claims[1])
            /\ summary.trueClaims + summary.falseClaims
                 + summary.partiallyTrueClaims + summary.unverifiableClaims
               = summary.totalClaims

\* the statuses of a claim list, in order
StatusesOf(claims) == [c \in 1..Len(claims) |-> claims[c].status]

\* C16: whenever a job has claims its overallScore is 100 for an empty list
\* and otherwise (100*T + 50*P + 50*U + 0*F) / N rounded to the nearest
\* integer with a half rounding up; it is an integer in 0..100, and the claims
\* true, true, false, partially_true score 63.
ScoreIsRoundedWeightedMean ==
    \A id \in videoJobs :
        heap[id].claims # None =>
            LET claims == heap[id].claims[1]
                N == Len(claims)
                weighted == 100 * Count(claims, "true") + 50 * Count(claims, "partially_true")
                            + 50 * Count(claims, "unverifiable") + 0 * Count(claims, "false")
            IN  /\ heap[id].overallScore # None
                /\ LET score == heap[id].overallScore[1]
                   IN  /\ score \in 0..100
                       /\ N = 0 => score = 100
                       /\ N > 0 => /\ 2 * N * score <= 2 * weighted + N
                                   /\ 2 * weighted + N < 2 * N * (score + 1)
                       /\ StatusesOf(claims) = <<"true", "true", "false", "partially_true">>
                            => score = 63

\* C16, its case: a job whose claims are true, true, false, partially_true
\* (a mean of 62.5) carries the score 63
ScoredSixtyThree ==
    /\ heap[1].claims # None /\ heap[1].overallScore = Some(63)
    /\ StatusesOf(heap[1].claims[1]) = <<"true", "true", "false", "partially_true">>

\* C17: every claim of a job's claim list whose status is true has an empty
\* sources list, whatever sources the verifier returned for it.
TrueClaimsCarryNoSources ==
    \A id \in videoJobs :
        heap[id].claims # None =>
            \A c \in 1..Len(heap[id].claims[1]) :
                heap[id].claims[1][c].status = "true" => heap[id].claims[1][c].sources = <<>>

\* C17, its case: the verifier named a source for every claim it rated true,
\* and the finished job holds a true claim next to a false claim that kept
\* its source
TrueClaimStripped ==
    /\ heap[1].status = "completed" /\ heap[1].claims # None
    /\ \E c, e \in 1..Len(heap[1].claims[1]) :
          /\ heap[1].claims[1][c].status = "true"
          /\ heap[1].claims[1][c].sources = <<>>
          /\ heap[1].claims[1][e].status = "false"
          /\ heap[1].claims[1][e].sources = <<"source">>

\* the writes of a segment that end the task in its catch block
Failing(ops) == {o \in 1..Len(ops) : ops[o].k = "aerr"}

\* C18: a response that is not parseable does not fail the analysis: after an
\* unparseable extraction the task holds exactly one placeholder claim and
\* waits for the verification; after an unparseable verification every
\* extracted claim is unverifiable with score 50 and the task runs on to its
\* end, where the job becomes completed with claims and overallScore present.
ParseFailureTolerated ==
    [][/\ extractReturns(1, 1, "unparseable", <<>>) =>
            /\ an'[1][1].pc = "verify"
            /\ an'[1][1].extracted = <<Placeholder>>
            /\ Failing(todo') = {}
       /\ verifyReturns(1, 1, "unparseable", <<>>) =>
            /\ Len(an'[1][1].claims) = Len(an[1][1].extracted)
            /\ \A c \in 1..Len(an[1][1].extracted) :
                  /\ an'[1][1].claims[c].text = an[1][1].extracted[c]
                  /\ an'[1][1].claims[c].status = "unverifiable"
                  /\ an'[1][1].claims[c].score = 50
            /\ Failing(todo') = {}
            /\ todo'[Len(todo')] = ADone
       /\ (todo # <<>> /\ Head(todo) = ADone) =>
            /\ heap'[1].status = "completed"
            /\ heap'[1].claims = Some(an[1][1].claims)
            /\ heap'[1].overallScore = Some(an[1][1].overallScore)]_vars

\* the analysis request for id has just been acknowledged
Acknowledged(id) == resp.op = "analyze" /\ resp.code = 200 /\ resp.id = id

\* a status query for id has just answered with the status completed
CompletedSnapshot(id) ==
    /\ resp.op = "status" /\ resp.code = 200 /\ resp.id = id
    /\ getVideoStatusReply(id).status = "completed"

\* C13: once the analysis request for a job has been acknowledged, every later
\* status snapshot that shows completed finds claims and overallScore present,
\* and from then on a results query succeeds for as long as the job is not
\* deleted.
AnalyzedRoundTrip ==
    \A id \in Ids :
        [](Acknowledged(id) =>
             [](CompletedSnapshot(id) =>
                  /\ heap[id].claims # None /\ heap[id].overallScore # None
                  /\ [](id \in videoJobs => getVideoResultsError(id) = "")))

\* C13, its case: a status query shows completed for a job that has been
\* analyzed
AnalyzedSnapshot ==
    /\ CompletedSnapshot(1)
    /\ heap[1].claims # None

\* C14: in every state of every job, claims and overallScore are both present
\* or both absent, also after a failed analysis and after a repeated one.
ClaimsAndScoreTogether ==
    \A id \in Generated : (heap[id].claims = None) <=> (heap[id].overallScore = None)

\* C14, its case: a repeated analysis of an analyzed job has failed, and the
\* job in error still carries the claims and the score of the first analysis
FailedReanalysisKeepsReport ==
    \E id \in Generated :
        /\ heap[id].status = "error"
        /\ heap[id].claims # None /\ heap[id].overallScore # None

\* C15: in every state a status query can observe, a job whose status is error
\* has its error message present.
ErrorHasMessage ==
    Idle => \A id \in videoJobs : heap[id].status = "error" => heap[id].error # None

\* C15, its case: the fact check failed and the job in error carries its
\* message
AnalysisErrorHasMessage ==
    /\ Idle
    /\ \E id \in videoJobs :
          heap[id].status = "error" /\ heap[id].error = Some("Fact-checking failed")

\* -------------------------------------------------- the splitter on its own
\* One accepted submission whose download succeeds; the probe reports a
\* duration of up to MaxWindows windows, next to a window boundary or on it,
\* and any of the chunk extractions may leave no file. Every upload and
\* every generation succeeds.
SplitDurations ==
    {0, CHUNKING_THRESHOLD_SECONDS, NaN}
    \cup {d \in CHUNKING_THRESHOLD_SECONDS + 1 .. MaxWindows * CHUNK_DURATION_SECONDS :
            d % CHUNK_DURATION_SECONDS \in {0, 1, CHUNK_DURATION_SECONDS - 1}}

NextSplit ==
    \/ Submit({Url(h_www_youtube)}, {"en"})
    \/ updateStatus
    \/ captureJob
    \/ finishTranscription
    \/ catchProcessError
    \/ \E j \in Ids : infoReturns(j, TRUE)
    \/ \E j \in Ids, audioDuration \in SplitDurations, size \in Sizes :
          \E created \in SUBSET Windows(audioDuration, CHUNK_DURATION_SECONDS) :
             mp3Returns(j, TRUE, audioDuration, size, created)
    \/ \E j \in Ids : uploadReturns(j, TRUE, "ACTIVE")
    \/ \E j \in Ids : generateReturns(j, "text")
    \/ \E j \in Ids, ok \in BOOLEAN : deleteReturns(j, ok)

SpecSplit == Init /\ [][NextSplit]_vars

\* the sum of the durations of a chunk list
RECURSIVE TotalDuration(_)
TotalDuration(chunks) ==
    IF chunks = <<>> THEN 0
    ELSE chunks[1].duration + TotalDuration(Tail(chunks))

\* the chunk list the claim describes for an audio of D seconds cut into
\* windows of W seconds
Tiles(chunks, D, W) ==
    LET n == (D + W - 1) \div W
    IN  /\ Len(chunks) = n
        /\ \A i \in 0..n - 1 :
              /\ chunks[i + 1].startTime = i * W
              /\ chunks[i + 1].duration = IF D - i * W < W THEN D - i * W ELSE W
              /\ chunks[i + 1].duration > 0
              /\ i + 1 < n =>
                    chunks[i + 1].startTime + chunks[i + 1].duration = chunks[i + 2].startTime
        /\ chunks[n].startTime + chunks[n].duration = D
        /\ TotalDuration(chunks) = D

\* C19: for an audio longer than the threshold, a window of 300 s and every
\* extraction leaving its file, the splitter returns ceil(D/W) chunks in
\* order, chunk i starting at i*W and lasting min(W, D - i*W), without gap
\* or overlap and with durations that sum to D; 1200 s gives the offsets
\* 0, 300, 600, 900 and four durations of 300.
SplitterTilesAudio ==
    [][\A j \in Ids, D \in SplitDurations, size \in Sizes :
          ( /\ GreaterThan(D, CHUNKING_THRESHOLD_SECONDS)
            /\ geminiApiKey
            /\ mp3Returns(j, TRUE, D, size, Windows(D, CHUNK_DURATION_SECONDS)) )
          => /\ dl'[j].path = "chunk"
             /\ Tiles(dl'[j].chunks, D, 300)
             /\ D = 1200 =>
                   dl'[j].chunks = <<[startTime |-> 0, duration |-> 300],
                                     [startTime |-> 300, duration |-> 300],
                                     [startTime |-> 600, duration |-> 300],
                                     [startTime |-> 900, duration |-> 300]>>]_vars

\* C19, its case: an audio of 1201 s was cut into five chunks, the last one
\* second long
SplitWithShortTail ==
    \E j \in Generated :
        /\ dl[j].path = "chunk" /\ dl[j].audioDuration = 1201
        /\ Len(dl[j].chunks) = 5
        /\ dl[j].chunks[5] = [startTime |-> 1200, duration |-> 1]

\* d is a number of at most s seconds
AtMost(d, s) == d # NaN /\ d <= s

\* the segment being run holds the progress message msg
Announces(msg) == \E o \in 1..Len(todo) : todo[o].msg = msg

Assembles(data) == verifyReturns(1, 1, "array", data)

\* C23: the i-th extracted claim takes the verdict standing at position i of
\* the verifier's array, whatever claimIndex the entries carry, and exactly
\* the claims with no verdict at their position get the default verdict
\* (unverifiable, 50).
VerdictsMatchedByPosition ==
    [][\A data \in MatchedVerdictChoices(ScoredLen) :
          Assembles(data) =>
             \A i \in 1..ScoredLen :
                LET claim == an'[1][1].claims[i]
                IN  IF i <= Len(data)
                    THEN claim.status = data[i].status /\ claim.score = data[i].score
                    ELSE claim.status = "unverifiable" /\ claim.score = 50]_vars

\* C23 as amended: the i-th extracted claim (counted from 0) takes the first
\* verdict of the verifier's array whose claimIndex is i, wherever it stands,
\* and exactly the claims whose index no verdict names get the default
\* verdict (unverifiable, 50).
VerdictsMatchedByClaimIndex ==
    [][\A data \in MatchedVerdictChoices(ScoredLen) :
          Assembles(data) =>
             \A i \in 1..ScoredLen :
                LET claim == an'[1][1].claims[i]
                    named == {p \in 1..Len(data) : data[p].claimIndex = i - 1}
                IN  /\ named = {} => claim.status = "unverifiable" /\ claim.score = 50
                    /\ \A p \in named :
                          (\A q \in named : p <= q)
                             => claim.status = data[p].status /\ claim.score = data[p].score]_vars

\* C23, its case: the verifier answered the second claim first, and each
\* claim of the finished job carries the verdict that named it
VerdictsSwapped ==
    /\ heap[1].status = "completed" /\ heap[1].claims # None
    /\ Len(heap[1].claims[1]) = 2
    /\ heap[1].claims[1][1].score = 2
    /\ heap[1].claims[1][2].score = 1

\* C24: every claim stored on a job has one of the four statuses and an
\* integer score in 0..100, whatever verdicts the verifier returned.
StoredClaimsWellFormed ==
    \A id \in videoJobs :
        heap[id].claims # None =>
            \A c \in 1..Len(heap[id].claims[1]) :
                /\ heap[id].claims[1][c].status \in ClaimStatuses
                /\ heap[id].claims[1][c].score \in 0..100

\* the segment being run ends the task with the error msg
FailsWith(msg) == todo # <<>> /\ todo[Len(todo)] = Err(msg)

\* C30: a window whose extraction fails is left out of the splitter's result
\* and every other window is still produced, in order, at its own offset
\* j*W; the job goes to error from splitting exactly when no window at all
\* was extracted.
FailedWindowsAreDropped ==
    [][\A j \in Ids, D \in SplitDurations, size \in Sizes :
          \A created \in SUBSET Windows(D, CHUNK_DURATION_SECONDS) :
             ( /\ GreaterThan(D, CHUNKING_THRESHOLD_SECONDS)
               /\ geminiApiKey
               /\ mp3Returns(j, TRUE, D, size, created) )
             => LET chunks == dl'[j].chunks
                IN  /\ Len(chunks) = Cardinality(created)
                    /\ \A k \in created :
                          \E c \in 1..Len(chunks) :
                             /\ chunks[c].startTime = k * 300
                             /\ chunks[c].duration = IF D - k * 300 < 300 THEN D - k * 300 ELSE 300
                    /\ \A c \in 1..Len(chunks) - 1 : chunks[c].startTime < chunks[c + 1].startTime
                    /\ created # {} => /\ dl'[j].path = "chunk"
                                       /\ \A o \in 1..Len(todo') : todo'[o].k # "err"
                    /\ created = {} => FailsWith("Failed to split audio into chunks")']_vars

\* C30, its case: the second window of an audio of 901 s left no file, and
\* the first and the last are being transcribed at their own offsets
MiddleWindowDropped ==
    \E j \in Generated :
        /\ dl[j].path = "chunk" /\ dl[j].audioDuration = 901
        /\ dl[j].chunks = <<[startTime |-> 0, duration |-> 300],
                            [startTime |-> 600, duration |-> 300],
                            [startTime |-> 900, duration |-> 1]>>

\* C22: on the chunked path the job ends in error, with no transcript, only
\* when no chunk yielded a non-empty text; when at least one chunk did, the
\* task ends by completing the job with the texts of those chunks as its
\* transcript, whatever happened to the uploads, the processing or the
\* generation of the other chunks.
ErrorOnlyWithoutAnyText ==
    [][\A j \in Generated :
          dl[j].path = "chunk" =>
             /\ generateReturns(j, "text") =>
                   dl'[j].texts = Append(dl[j].texts, dl[j].chunks[dl[j].i].startTime)
             /\ dl'[j].pc # "done" =>
                   \/ dl'[j].texts = dl[j].texts
                   \/ generateReturns(j, "text")
             /\ (cur = DlTask(j) /\ Head(todo).k = "err") =>
                   dl[j].texts = <<>> /\ heap'[j].transcription = None
             /\ (cur = DlTask(j) /\ todo' # <<>> /\ dl'[j].pc = "sync"
                   /\ dl[j].pc # "sync" /\ dl[j].texts # <<>>) =>
                   todo'[Len(todo')] = Fin
             /\ (cur = DlTask(j) /\ Head(todo).k = "fin" /\ j \in videoJobs) =>
                   /\ dl[j].texts # <<>>
                   /\ heap'[j].status = "completed"
                   /\ heap'[j].transcription = Some(MergedText(dl[j].texts))]_vars

\* C22, its case: of the three chunks of an audio only the second yielded
\* text, and the job is completed with that text as its transcript
CompletedOnOneChunk ==
    \E j \in videoJobs :
        /\ heap[j].status = "completed"
        /\ heap[j].transcription = Some(MergedText(<<300>>))

\* job j is on a whole-file path
WholeFile(j) == dl[j].path \in {"inline", "file"}

\* the step moves the download task of job j on: more than its working
\* files changes
Moves(j) == [dl'[j] EXCEPT !.files = dl[j].files] # dl[j]

\* the step is the return of the call of the given kind that job j awaits
Returns(j, kind) == Idle /\ dl[j].pc = kind /\ Moves(j)

\* the step ends the task of job j with the error msg
Surfaces(j, msg) == dl'[j].pc = "sync" /\ todo' # <<>> /\ todo'[Len(todo')] = Err(msg)

\* on a whole-file path: at most 3 attempts per loop, a loop is left for good
\* at its first success, three failed uploads surface the third upload's
\* error, and a surfaced error drives the job to error
BoundedRetries(j) ==
    /\ dl[j].attempt <= 3
    /\ Returns(j, "upload") =>
          \/ dl'[j].pc = "backoff" /\ dl'[j].resume = "upload" /\ dl[j].attempt < 3
          \/ dl[j].attempt = 3 /\ dl'[j].lastError = Some(UploadError(3))
               /\ Surfaces(j, UploadError(3))
          \/ dl'[j].pc \in {"poll", "generate"}
          \/ dl'[j].state = "FAILED"
               /\ Surfaces(j, "Gemini file processing failed. Try a shorter video.")
    /\ (dl'[j].pc = "upload" /\ dl[j].pc # "upload") =>
          \/ dl[j].pc = "mp3" \/ dl[j].pc = "best"
          \/ dl[j].pc = "backoff" /\ dl[j].resume = "upload"
               /\ dl'[j].attempt = dl[j].attempt + 1
    /\ Returns(j, "generate") =>
          \/ dl'[j].pc \in {"backoff", "generate"} /\ dl[j].attempt < 3
          \/ dl[j].attempt = 3 /\ dl'[j].pc = "sync" /\ todo'[Len(todo')].k = "err"
          \/ dl'[j].lastError = dl[j].lastError /\ dl'[j].result = dl[j].result
               /\ dl'[j].pc = "delete"
          \/ dl'[j].lastError = dl[j].lastError /\ dl'[j].result # None
               /\ todo'[Len(todo')] = Fin
    /\ (cur = DlTask(j) /\ Head(todo).k = "err" /\ j \in videoJobs) =>
          heap'[j].status = "error" /\ heap'[j].error = Some(Head(todo).msg)

\* C25: on the whole-file paths the upload loop and the generation loop make
\* at most 3 attempts each and stop at the first success; when all 3 attempts
\* fail, the error surfaced is the one raised by the last failed attempt, and
\* it drives the job to error.
LastAttemptsErrorSurfaces ==
    [][\A j \in Generated :
          WholeFile(j) =>
             /\ BoundedRetries(j)
             /\ (Returns(j, "generate") /\ dl'[j].pc = "sync" /\ dl'[j].result = None) =>
                   \A k \in 1..2 : ~Surfaces(j, GenerateError(k))]_vars

\* C25 as amended: the same bounds, and when all 3 attempts fail the error
\* surfaced is the last one an attempt raised: the third attempt's when it
\* threw, an earlier attempt's when every attempt after it returned empty
\* text, and a general failure when no attempt threw.
LastRaisedErrorSurfaces ==
    [][\A j \in Generated :
          WholeFile(j) =>
             /\ BoundedRetries(j)
             /\ dl[j].pc = "generate" =>
                   dl[j].lastError \in {None} \cup {Some(GenerateError(k)) : k \in 1..dl[j].attempt - 1}
             /\ (Returns(j, "generate") /\ dl'[j].pc = "sync" /\ dl'[j].result = None) =>
                   \/ dl'[j].lastError = Some(GenerateError(3)) /\ Surfaces(j, GenerateError(3))
                   \/ /\ dl'[j].lastError = dl[j].lastError
                      /\ IF dl[j].lastError # None THEN Surfaces(j, dl[j].lastError[1])
                         ELSE IF dl[j].path = "file"
                         THEN Surfaces(j, "Transcription failed with File API")
                         ELSE Surfaces(j, "Transcription failed with inline data")]_vars

\* C25, its case: the first generation call threw, the two after it returned
\* empty text, and the job is in error with the first call's error
StaleErrorSurfaced ==
    \E j \in videoJobs :
        heap[j].status = "error" /\ heap[j].error = Some(GenerateError(1))

\* C26: every retry is preceded by a backoff wait: attempt k+1 of an upload
\* starts after a wait of 2^k seconds, attempt k+1 of a generation, whether
\* attempt k threw or returned empty text, after a fixed wait (2 s inline,
\* 3 s with an uploaded file); no wait follows a final attempt or a success.
RetriesWaitFirst ==
    [][\A j \in Generated :
          /\ (dl'[j].pc = "upload" /\ dl'[j].attempt > 1 /\ Moves(j)
                /\ dl[j].pc \notin {"sync", "upload"}) =>
                /\ dl[j].pc = "backoff"
                /\ dl[j].delay = 2^(dl'[j].attempt - 1) * 1000
          /\ (dl'[j].pc = "generate" /\ dl'[j].attempt > 1 /\ Moves(j)
                /\ dl[j].pc # "sync") =>
                /\ dl[j].pc = "backoff"
                /\ dl[j].delay = IF dl[j].path = "inline" THEN 2000 ELSE 3000
          /\ (dl'[j].pc = "backoff" /\ dl[j].pc # "backoff") =>
                /\ dl[j].attempt < 3
                /\ dl[j].pc \in {"upload", "generate"}
                /\ dl'[j].lastError # None]_vars

\* C27: on the chunked path the upload and the generation of a chunk are each
\* attempted up to 3 times: a chunk whose generation gave no text is given
\* up only at the third attempt.
ChunkCallsRetried ==
    [][\A j \in Generated : dl[j].path = "chunk" =>
          /\ dl[j].attempt <= 3
          /\ (Returns(j, "upload") /\ dl'[j].pc = "backoff") =>
                dl[j].attempt < 3 /\ dl'[j].resume = "upload"
          /\ (Returns(j, "generate") /\ Len(dl'[j].texts) = Len(dl[j].texts)
                /\ dl'[j].pc \notin {"generate", "backoff"}) =>
                dl[j].attempt = 3]_vars

\* C29: once the generation step of an uploaded asset has finished, with a
\* transcript, an exception or the exhaustion of its attempts, a delete of
\* the asset is attempted; the delete's failure changes neither the unit's
\* outcome nor the job's status.
UploadedAssetsDeleted ==
    [][\A j \in Generated : dl[j].path \in {"file", "chunk"} =>
          /\ (Returns(j, "generate") /\ dl'[j].pc \notin {"generate", "backoff"}) =>
                dl'[j].pc = "delete"
          /\ Returns(j, "delete") =>
                /\ dl'[j].texts = dl[j].texts
                /\ dl[j].path = "file" =>
                      dl'[j].result = Some(WholeText) /\ todo'[Len(todo')] = Fin
                /\ (dl[j].path = "chunk" /\ dl[j].texts # <<>>) =>
                      \/ dl'[j].pc = "upload" /\ dl'[j].i = dl[j].i + 1
                      \/ dl'[j].result = Some(MergedText(dl[j].texts))]_vars

\* ------------------------------------------------------- the poll loops
\* one job whose audio is uploaded, whole or in chunks, and whose asset may
\* stay in PROCESSING for as long as the service likes
PolledDurations == {0, 700}

NextPoll ==
    \/ Submit({Url(h_www_youtube)}, {"en"})
    \/ updateStatus
    \/ captureJob
    \/ finishTranscription
    \/ catchProcessError
    \/ \E j \in Ids : infoReturns(j, TRUE)
    \/ \E j \in Ids, audioDuration \in PolledDurations :
          mp3Returns(j, TRUE, audioDuration, FILE_SIZE_THRESHOLD + 1,
                     Windows(audioDuration, CHUNK_DURATION_SECONDS))
    \/ \E j \in Ids, state \in FileStates : uploadReturns(j, TRUE, state)
    \/ \E j \in Ids, outcome \in FileStates \cup {"throw"} : pollReturns(j, outcome)
    \/ \E j \in Ids : generateReturns(j, "text")
    \/ \E j \in Ids, ok \in BOOLEAN : deleteReturns(j, ok)

SpecPoll == Init /\ [][NextPoll]_vars

\* what the poll loops do apart from their ceiling: a poll, throwing or not,
\* counts as one; the loop ends as soon as the asset is not PROCESSING; an
\* asset still PROCESSING leaves the loop only towards the generation
PollLoop(j) ==
    Returns(j, "poll") =>
       /\ dl'[j].pc = "poll" =>
             dl'[j].waitCount = dl[j].waitCount + 1 /\ dl'[j].state = "PROCESSING"
       /\ dl'[j].state = "PROCESSING" => dl'[j].pc \in {"poll", "generate"}
       /\ dl'[j].pc = "generate" => dl'[j].state \in {"PROCESSING", "ACTIVE"}

\* the number of polls made when a step leaves the loop with the asset
\* still PROCESSING
GivesUpAfter(j, polls) ==
    (Returns(j, "poll") /\ dl'[j].pc = "generate" /\ dl'[j].state = "PROCESSING") =>
       dl[j].waitCount + 1 \in polls

\* C28: the polls after an upload are bounded: the loop stops as soon as the
\* asset is not PROCESSING, a throwing poll counts as one poll, and an asset
\* still PROCESSING at the ceiling, which is between 60 and 120 polls on each
\* path, goes on to the generation.
PollCeilingSixtyToOneTwenty ==
    [][\A j \in Generated : dl[j].path \in {"file", "chunk"} =>
          /\ PollLoop(j)
          /\ GivesUpAfter(j, 60..120)]_vars

\* C28 (amended): the same with a ceiling of 60 polls for a whole file and
\* of 30 polls for a chunk.
PollCeilingSixtyAndThirty ==
    [][\A j \in Generated : dl[j].path \in {"file", "chunk"} =>
          /\ PollLoop(j)
          /\ GivesUpAfter(j, IF dl[j].path = "file" THEN {60} ELSE {30})
          /\ dl[j].waitCount <= (IF dl[j].path = "file" THEN 60 ELSE 30)]_vars

\* a chunk that was still PROCESSING after its last poll is being transcribed
ChunkGivenUpWaiting ==
    \E j \in Generated :
       dl[j].path = "chunk" /\ dl[j].pc = "generate" /\ dl[j].state = "PROCESSING"

\* ------------------------------------------------------------ termination
\* one job, every outcome of every external call, an asset that may stay
\* in PROCESSING for as long as the service likes; every external call
\* eventually returns or throws and the event loop runs what is ready
LiveDurations == {0, 700}
\* the arrays the two responses of an analysis can parse to: none or one claim
LiveExtractedChoices == {<<>>, <<"claim">>}
LiveVerdictChoices ==
    {<<>>, <<[claimIndex |-> 0, status |-> "false", score |-> 85, sources |-> <<"source">>]>>}

Calls ==
    \/ \E j \in Ids, k \in 1..2, outcome \in {"array", "unparseable", "throw"},
          extracted \in LiveExtractedChoices :
          extractReturns(j, k, outcome, extracted)
    \/ \E j \in Ids, k \in 1..2, outcome \in {"array", "unparseable", "throw"},
          factCheckData \in LiveVerdictChoices :
          verifyReturns(j, k, outcome, factCheckData)
    \/ \E j \in Ids, ok \in BOOLEAN : infoReturns(j, ok)
    \/ \E j \in Ids, mp3 \in BOOLEAN, audioDuration \in LiveDurations, size \in Sizes :
          mp3Returns(j, mp3, audioDuration, size,
                     Windows(audioDuration, CHUNK_DURATION_SECONDS))
    \/ \E j \in Ids, outcome \in {"file", "nofile", "throw"},
          audioDuration \in LiveDurations, size \in Sizes :
          bestReturns(j, outcome, audioDuration, size,
                      Windows(audioDuration, CHUNK_DURATION_SECONDS))
    \/ \E j \in Ids, ok \in BOOLEAN, state \in FileStates : uploadReturns(j, ok, state)
    \/ \E j \in Ids : backoffElapsed(j)
    \/ \E j \in Ids, outcome \in FileStates \cup {"throw"} : pollReturns(j, outcome)
    \/ \E j \in Ids, outcome \in {"text", "empty", "throw"} : generateReturns(j, outcome)
    \/ \E j \in Ids, ok \in BOOLEAN : deleteReturns(j, ok)

NextLive ==
    \/ Submit({Url(h_www_youtube)}, {"en"})
    \/ Requests
    \/ Writes
    \/ Calls

SpecLive == Init /\ [][NextLive]_vars /\ WF_vars(Writes) /\ WF_vars(Calls)

\* job j is in the table in one of the given phases
InPhase(j, phases) == j \in videoJobs /\ Phase(heap[j]) \in phases

\* C21: every job submitted and not deleted eventually reaches
\* completed(transcribed) or error, and every job that enters analyzing
\* eventually reaches completed(analyzed) or error: no job stays for ever in
\* pending, downloading, transcribing or analyzing.
EveryJobEnds ==
    \A j \in Ids :
       /\ InPhase(j, {"pending", "downloading", "transcribing"})
             ~> (j \notin videoJobs \/ InPhase(j, {"transcribed", "error"}))
       /\ InPhase(j, {"analyzing"})
             ~> (j \notin videoJobs \/ InPhase(j, {"analyzed", "error"}))

\* a job went through both phases: it is analyzed and no task is left
BothPhasesEnded ==
    \E j \in videoJobs :
       /\ Phase(heap[j]) = "analyzed"
       /\ an[j] = <<>>
       /\ cur = NoTask

\* the number a string of decimal digits stands for
RECURSIVE ParseDigits(_)
ParseDigits(s) ==
    IF s = <<>> THEN 0 ELSE ParseDigits(SubSeq(s, 1, Len(s) - 1)) * 10 + s[Len(s)]

\* header is the [MM:SS] header of the offset
HeaderOf(header, offset) ==
    /\ Len(header.mins) >= 2 /\ Len(header.secs) = 2
    /\ ParseDigits(header.secs) < 60
    /\ ParseDigits(header.mins) * 60 + ParseDigits(header.secs) = offset

\* C31: the merged transcript of the chunked path is made of exactly the
\* chunks that produced non-empty text, in ascending chunk order, each under
\* the [MM:SS] header of its own start offset; a chunk that gave no text
\* adds nothing and moves no later header.
MergedKeepsOwnHeaders ==
    [][\A j \in Generated : dl[j].path = "chunk" =>
          /\ generateReturns(j, "text") =>
                dl'[j].texts = Append(dl[j].texts, dl[j].chunks[dl[j].i].startTime)
          /\ (\/ generateReturns(j, "empty") \/ generateReturns(j, "throw")
              \/ \E ok \in BOOLEAN, state \in FileStates : uploadReturns(j, ok, state)
              \/ \E outcome \in FileStates \cup {"throw"} : pollReturns(j, outcome)
              \/ \E ok \in BOOLEAN : deleteReturns(j, ok)) =>
                dl'[j].texts = dl[j].texts
          /\ (dl'[j].result # None /\ dl[j].result = None) =>
                LET merged == dl'[j].result[1].parts IN
                /\ Len(merged) = Len(dl[j].texts)
                /\ \A p \in 1..Len(merged) : HeaderOf(merged[p], dl[j].texts[p])
                /\ \A p \in 1..Len(merged) - 1 : dl[j].texts[p] < dl[j].texts[p + 1]]_vars

\* a transcript of the first and the third chunk: the second gave no text
MergedWithoutMiddle ==
    \E j \in videoJobs :
       /\ heap[j].status = "completed"
       /\ heap[j].transcription # None
       /\ heap[j].transcription[1].kind = "chunks"
       /\ heap[j].transcription[1].parts =
             <<[mins |-> <<0, 0>>, secs |-> <<0, 0>>], [mins |-> <<1, 0>>, secs |-> <<0, 0>>]>>

\* a step of the download task of job j that ends the attempt on chunk i
EndsChunk(j) ==
    /\ Idle /\ dl[j].path = "chunk" /\ Moves(j)
    /\ dl'[j].i > dl[j].i \/ dl'[j].pc = "sync"

\* C32: on the chunked path the file of a chunk is removed after the attempt
\* on that chunk, however the attempt ended (a transcript, a throw of the
\* upload or of the generation, an asset gone to FAILED), and no chunk file
\* is left when the chunked transcription returns or throws.
ChunkFilesRemoved ==
    [][\A j \in Generated :
          EndsChunk(j) =>
             /\ dl[j].chunks[dl[j].i].startTime \notin dl'[j].files.chunks
             /\ dl'[j].pc = "sync" => dl'[j].files.chunks = {}]_vars

\* job j was deleted and no background task of it is left
DeletedAndQuiet(j) ==
    /\ j \notin videoJobs
    /\ dl[j].pc = "done"
    /\ an[j] = <<>>
    /\ cur.job # j

\* C35: once deleteVideo has answered for a job and every background task
\* of the job has finished, the job's directory holds no working file, no
\* audio and no chunk, however the deletion fell among the steps of the
\* download, the split and the transcription.
DeletedLeavesNoFiles ==
    \A j \in Generated : DeletedAndQuiet(j) => dl[j].files = NoFiles

\* C33: the progress of a job is an integer from 0 to 100 in every state, and
\* it is 5 when the job enters downloading, 45 when it enters transcribing,
\* 70 when it enters completed(transcribed), 75 when it enters analyzing and
\* 100 when it enters completed(analyzed).
ProgressCheckpoints ==
    [][/\ \A j \in DOMAIN heap' : heap'[j].progress \in 0..100
       /\ \A j \in Generated :
             LET Enters(phase) == Phase(heap'[j]) = phase /\ Phase(heap[j]) # phase IN
             /\ Enters("downloading") => heap'[j].progress = 5
             /\ Enters("transcribing") => heap'[j].progress = 45
             /\ Enters("transcribed") => heap'[j].progress = 70
             /\ Enters("analyzing") => heap'[j].progress = 75
             /\ Enters("analyzed") => heap'[j].progress = 100]_vars

\* a job transcribed in chunks, back at 70 from the 100 of the merge
TranscribedInChunksAtSeventy ==
    \E j \in videoJobs :
       /\ Phase(heap[j]) = "transcribed"
       /\ heap[j].progress = 70
       /\ heap[j].transcription[1].kind = "chunks"

\* a transcript with text in it: a whole file's text, or at least one section
HasText(transcription) ==
    transcription # None /\ (transcription[1].kind = "whole" \/ transcription[1].parts # <<>>)

\* C34: the snapshot of GET status carries the transcript exactly when the
\* job is completed or analyzing; a job that is completed or analyzing has a
\* transcript with text, a job that is pending, downloading or transcribing
\* has none.
TranscriptWhenTranscribed ==
    \A id \in videoJobs :
       /\ getVideoStatusReply(id).transcription # None
             <=> heap[id].status \in {"completed", "analyzing"}
       /\ heap[id].status \in {"completed", "analyzing"} =>
             /\ HasText(heap[id].transcription)
             /\ getVideoStatusReply(id).transcription = heap[id].transcription
       /\ heap[id].status \in {"pending", "downloading", "transcribing"} =>
             heap[id].transcription = None

\* the snapshot of an analyzing job carries its transcript
AnalyzingShowsTranscript ==
    \E id \in videoJobs :
       /\ heap[id].status = "analyzing"
       /\ HasText(getVideoStatusReply(id).transcription)

\* the response texts of a call that returned
Returned == {"array", "unparseable"} \cup NotArrays

\* C36: when the extraction and the verification both return without
\* throwing, the analysis ends with the job completed, whatever the response
\* texts are: an array, a text that does not parse, or JSON that is no array.
ReturnedCallsEndCompleted ==
    [][\A outcome \in Returned :
          /\ (\E extracted \in ScoredExtractedChoices :
                 extractReturns(1, 1, outcome, extracted)) => Failing(todo') = {}
          /\ (\E factCheckData \in
                    ScoredVerdictChoices(ScoredLen) \cup MatchedVerdictChoices(ScoredLen) :
                 verifyReturns(1, 1, outcome, factCheckData)) =>
                Failing(todo') = {} /\ todo'[Len(todo')] = ADone]_vars

\* C37: while a job is analyzing, GET results answers that the analysis is
\* not complete: it never hands out the claims and the score of an earlier
\* analysis while a new one is running.
NoResultsWhileAnalyzing ==
    (resp.op = "results" /\ resp.id \in videoJobs /\ heap[resp.id].status = "analyzing") =>
        resp.code = 400 /\ resp.error = "Analysis not yet complete"

\* C38: a job has an error message only while its status is error: a job
\* that is pending, downloading, transcribing, completed or analyzing has
\* none, and GET status reports none for it.
ErrorMessageOnlyInError ==
    \A id \in videoJobs :
       heap[id].status # "error" =>
          heap[id].error = None /\ getVideoStatusReply(id).error = None

\* C39: the id, url, platform and language of a job never change, its
\* transcript never changes once set, and its claims and overallScore change
\* only where an analysis task completes, both being set there; the steps of
\* the analysis leave the audio path and the transcript alone, and a failed
\* analysis leaves the stored claims and overallScore alone.
FieldsChangeOnlyWhereDue ==
    [][\A j \in Generated :
          LET job == heap[j]
              after == heap'[j]
              AnalysisStep == cur.kind = "an" \/ cur'.kind = "an"
              Completes == todo # <<>> /\ Head(todo) = ADone /\ cur.job = j
          IN  /\ after.id = job.id /\ after.url = job.url
              /\ after.platform = job.platform /\ after.language = job.language
              /\ job.transcription # None => after.transcription = job.transcription
              /\ (after.claims # job.claims \/ after.overallScore # job.overallScore) =>
                    Completes /\ after.claims # None /\ after.overallScore # None
              /\ Completes => after.claims # None /\ after.overallScore # None
              /\ AnalysisStep =>
                    after.audioPath = job.audioPath /\ after.transcription = job.transcription
              /\ (todo # <<>> /\ Head(todo).k = "aerr") =>
                    after.claims = job.claims /\ after.overallScore = job.overallScore]_vars

\* a second analysis is running on a job that keeps the report of the first
ReanalysisHoldsReport ==
    \E j \in videoJobs :
       /\ heap[j].status = "analyzing"
       /\ heap[j].claims # None /\ heap[j].overallScore # None
       /\ heap[j].transcription # None

\* C40: GET status and GET results are read-only: a step that answers one
\* of them, for a known or an unknown id, in whatever state, changes no
\* field of any job, adds and removes no job, starts no background task and
\* moves no task on, so it is answered while a task is still in flight.
QueriesReadOnly ==
    [][resp'.op \in {"status", "results"} => UNCHANGED server]_vars

\* the status of a job has just been answered while its task is in flight
AnsweredWhileInFlight ==
    /\ resp.op = "status" /\ resp.code = 200
    /\ resp.id \in videoJobs
    /\ heap[resp.id].status \in {"downloading", "transcribing", "analyzing"}

====
